---------------------------- MODULE Spec2Model ----------------------------
(***************************************************************************)
(* Model of the heartbeat content pipeline: the daily-idea orchestrator    *)
(* (scripts/daily_idea.py) with its providers and uniqueness checker, and  *)
(* the two summary enrichment jobs (scripts/build_ai_summary.py and        *)
(* scripts/build_ai_summaries_history.py) that rewrite the structured log. *)
(*                                                                         *)
(* Text is modelled character by character: a string is a sequence of      *)
(* one-character strings, so that slugify, limit_words, clean_tags, the    *)
(* response parsing, the markdown formatting and the heading regex are     *)
(* computed as the code computes them.  A JSON line is modelled by the     *)
(* value json.loads returns for it (a record for an object) or by BadLine  *)
(* when json.loads raises.                                                 *)
(***************************************************************************)
EXTENDS Integers, Sequences, FiniteSets, TLC

(***************************************************************************)
(* Characters                                                              *)
(***************************************************************************)

\* U+2014, the dash of the heading line "### <date> — <title>"
EmDash == "EMDASH"

\* U+0060, the quote of the Theme:, Repo: and Tags: lines
Backtick == "BACKTICK"

LowerLetters ==
  <<"a","b","c","d","e","f","g","h","i","j","k","l","m",
    "n","o","p","q","r","s","t","u","v","w","x","y","z">>

UpperLetters ==
  <<"A","B","C","D","E","F","G","H","I","J","K","L","M",
    "N","O","P","Q","R","S","T","U","V","W","X","Y","Z">>

Digits == <<"0","1","2","3","4","5","6","7","8","9">>

\* the characters of the model in code point order (str comparison in sorted())
CodeOrder ==
  <<"\t","\n"," ","!","#","(",")",",","-",".">> \o Digits
    \o <<":",";","?">> \o UpperLetters \o <<Backtick>> \o LowerLetters
    \o <<"|", EmDash>>

\* v bound to its value, then F of it.  TLC evaluates an operator argument each
\* time the operator's body uses it; Bind evaluates v once
Bind(v, F(_)) == CHOOSE r \in {F(x) : x \in {v}} : TRUE

Range(s) == {s[i] : i \in 1..Len(s)}

UpperSet == Range(UpperLetters)

\* [a-z0-9\-]
SlugChars == Range(LowerLetters) \cup Range(Digits) \cup {"-"}

DigitSet == Range(Digits)

\* \s of the re module, restricted to the characters of the model
Whitespace == {" ", "\n", "\t"}

Ord(c) == CHOOSE i \in 1..Len(CodeOrder) : CodeOrder[i] = c

IsDigit(c) == c \in DigitSet

IsSlugChar(c) == c \in SlugChars

\* str.lower() on one character
LowerChar(c) ==
  IF c \in UpperSet
    THEN LowerLetters[CHOOSE i \in 1..26 : UpperLetters[i] = c]
    ELSE c

(***************************************************************************)
(* Strings                                                                 *)
(***************************************************************************)

Lower(s0) == Bind(s0, LAMBDA s : [i \in 1..Len(s) |-> LowerChar(s[i])])

\* s[a..b] of the module Sequences, empty when a > b
Slice(s, a0, b0) ==
  Bind(a0, LAMBDA a : Bind(b0, LAMBDA b : IF a > b THEN <<>> ELSE SubSeq(s, a, b)))

\* the least element of a non-empty set of integers
MinOf(S0) == Bind(S0, LAMBDA S : CHOOSE k \in S : \A j \in S : k <= j)

\* first index >= i of s whose character is in cs, Len(s) + 1 when there is none
FirstIn(s0, cs, i) ==
  Bind(s0, LAMBDA s :
    Bind({k \in i..Len(s) : s[k] \in cs}, LAMBDA at :
      IF at = {} THEN Len(s) + 1 ELSE MinOf(at)))

\* first index >= i of s whose character is not in cs, Len(s) + 1 when there is none
FirstNotIn(s0, cs, i) ==
  Bind(s0, LAMBDA s :
    Bind({k \in i..Len(s) : s[k] \notin cs}, LAMBDA at :
      IF at = {} THEN Len(s) + 1 ELSE MinOf(at)))

\* last index of s whose character is not in cs, 0 when there is none
LastNotIn(s0, cs) ==
  Bind(s0, LAMBDA s :
    Bind({k \in 0..(Len(s) - 1) : s[Len(s) - k] \notin cs}, LAMBDA back :
      IF back = {} THEN 0 ELSE Len(s) - MinOf(back)))

\* str.strip(chars) / lstrip / rstrip with the stripped set given as a set
LStripSet(s0, cs) == Bind(s0, LAMBDA s : Slice(s, FirstNotIn(s, cs, 1), Len(s)))

RStripSet(s0, cs) == Bind(s0, LAMBDA s : Slice(s, 1, LastNotIn(s, cs)))

StripSet(s, cs) == RStripSet(LStripSet(s, cs), cs)

Strip(s) == StripSet(s, Whitespace)

\* s[i:i+len(sub)] == sub
StartsAt(s, sub, i) ==
  /\ i >= 1
  /\ i + Len(sub) - 1 <= Len(s)
  /\ \A k \in 1..Len(sub) : s[i + k - 1] = sub[k]

\* sub in s
Contains(s0, sub0) ==
  Bind(s0, LAMBDA s : Bind(sub0, LAMBDA sub :
    \E i \in 1..(Len(s) - Len(sub) + 1) : StartsAt(s, sub, i)))

RECURSIVE JoinRange(_, _, _, _)
\* sep.join(parts[a..b]), by halves
JoinRange(parts, sep, a, b) ==
  IF a > b THEN <<>>
  ELSE IF a = b THEN parts[a]
  ELSE JoinRange(parts, sep, a, (a + b) \div 2) \o sep
         \o JoinRange(parts, sep, ((a + b) \div 2) + 1, b)

\* sep.join(parts)
Join(parts0, sep) == Bind(parts0, LAMBDA parts : JoinRange(parts, sep, 1, Len(parts)))

\* the indices 1..n as a sequence
Indices(n) == [i \in 1..n |-> i]

\* re.split(r"<set>+", s): the pieces of s between maximal runs of characters of
\* cs, with an empty piece before a leading run and after a trailing one
SplitRuns(s0, cs) ==
  Bind(s0, LAMBDA s :
    Bind(SelectSeq(Indices(Len(s)),
                   LAMBDA i : s[i] \notin cs /\ (i = 1 \/ s[i - 1] \in cs)),
         LAMBDA starts :
      IF Len(s) = 0 THEN << <<>> >>
      ELSE (IF s[1] \in cs THEN << <<>> >> ELSE <<>>)
           \o [k \in 1..Len(starts) |-> Slice(s, starts[k], FirstIn(s, cs, starts[k]) - 1)]
           \o (IF s[Len(s)] \in cs THEN << <<>> >> ELSE <<>>)))

\* re.split(r"[<set>]", s): one split per separator character
SplitEach(s0, cs) ==
  Bind(s0, LAMBDA s :
    Bind(SelectSeq(Indices(Len(s)), LAMBDA i : s[i] \in cs) \o <<Len(s) + 1>>,
         LAMBDA seps :
      [k \in 1..Len(seps) |->
         Slice(s, (IF k = 1 THEN 0 ELSE seps[k - 1]) + 1, seps[k] - 1)]))

\* str.splitlines()
SplitLines(s0) ==
  Bind(s0, LAMBDA s :
    IF Len(s) = 0 THEN <<>>
    ELSE Bind(SplitEach(s, {"\n"}), LAMBDA parts :
           IF parts[Len(parts)] = <<>> THEN Slice(parts, 1, Len(parts) - 1) ELSE parts))

\* re.sub(r"[^a-z0-9\-]+", "-", s): a run of other characters becomes one "-"
ReplaceRuns(s0) ==
  Bind(s0, LAMBDA s :
    Bind(SelectSeq(Indices(Len(s)),
                   LAMBDA i : IsSlugChar(s[i]) \/ i = 1 \/ IsSlugChar(s[i - 1])),
         LAMBDA kept :
      [j \in 1..Len(kept) |-> IF IsSlugChar(s[kept[j]]) THEN s[kept[j]] ELSE "-"]))

\* re.sub(r"-+", "-", s)
CollapseDashes(s0) ==
  Bind(s0, LAMBDA s :
    Bind(SelectSeq(Indices(Len(s)), LAMBDA i : s[i] # "-" \/ i = 1 \/ s[i - 1] # "-"),
         LAMBDA kept : [j \in 1..Len(kept) |-> s[kept[j]]]))

\* a < b for str
StrLess(a0, b0) ==
  Bind(a0, LAMBDA a : Bind(b0, LAMBDA b :
    Bind({i \in 1..Len(a) : i > Len(b) \/ a[i] # b[i]}, LAMBDA diff :
      IF diff = {} THEN Len(a) < Len(b)
      ELSE MinOf(diff) <= Len(b) /\ Ord(a[MinOf(diff)]) < Ord(b[MinOf(diff)]))))

RECURSIVE SortedSeq(_)
\* sorted(set_of_str)
SortedSeq(S0) ==
  Bind(S0, LAMBDA S :
    IF S = {} THEN <<>>
    ELSE Bind(CHOOSE x \in S : \A y \in S \ {x} : StrLess(x, y), LAMBDA m :
           <<m>> \o SortedSeq(S \ {m})))

\* str(n) for 0 <= n < 10000
IntStr(n) ==
  IF n < 10 THEN <<Digits[n + 1]>>
  ELSE IF n < 100 THEN <<Digits[(n \div 10) + 1], Digits[(n % 10) + 1]>>
  ELSE IF n < 1000
    THEN <<Digits[(n \div 100) + 1], Digits[((n \div 10) % 10) + 1], Digits[(n % 10) + 1]>>
  ELSE <<Digits[(n \div 1000) + 1], Digits[((n \div 100) % 10) + 1],
         Digits[((n \div 10) % 10) + 1], Digits[(n % 10) + 1]>>

\* f"{n:02d}"
Pad2(n) == IF n < 10 THEN <<"0">> \o IntStr(n) ELSE IntStr(n)

\* s[:n]
Take(s0, n) == Bind(s0, LAMBDA s : Slice(s, 1, IF Len(s) < n THEN Len(s) ELSE n))

(***************************************************************************)
(* daily_idea.py: pure helpers                                             *)
(***************************************************************************)

THEMES ==
  << <<"s","e","c","u","r","i","t","y">>,
     <<"d","a","t","a">>,
     <<"d","e","v","t","o","o","l","s">>,
     <<"a","u","t","o","m","a","t","i","o","n">>,
     <<"o","b","s","e","r","v","a","b","i","l","i","t","y">>,
     <<"p","r","o","d","u","c","t","i","v","i","t","y">>,
     <<"m","l">> >>

\* datetime.date: a record [y, m, d]
IsLeap(y) == (y % 4 = 0 /\ y % 100 # 0) \/ y % 400 = 0

DaysInMonth(y, m) ==
  IF m = 2 THEN (IF IsLeap(y) THEN 29 ELSE 28)
  ELSE IF m \in {4, 6, 9, 11} THEN 30 ELSE 31

RECURSIVE DaysBefore(_, _)
DaysBefore(y, m) == IF m = 1 THEN 0 ELSE DaysBefore(y, m - 1) + DaysInMonth(y, m - 1)

\* d.timetuple().tm_yday
YDay(d) == DaysBefore(d.y, d.m) + d.d

\* d.isoformat()
IsoFormat(d) == IntStr(d.y) \o <<"-">> \o Pad2(d.m) \o <<"-">> \o Pad2(d.d)

\* a rotation by the day count since year 0 instead of the day of the year
day_theme_ordinal(d) == THEMES[((365 * d.y + YDay(d) - 1) % Len(THEMES)) + 1]

day_theme(d) == THEMES[((YDay(d) - 1) % Len(THEMES)) + 1]

TrimPunct == {",", ".", ";", ":", "!", "?"}

\* limit_words without its cut: the words joined, however many
limit_words_all(text, max_words) == Join(SplitRuns(Strip(text), Whitespace), <<" ">>)

limit_words(text, max_words) ==
  Bind(SplitRuns(Strip(text), Whitespace), LAMBDA words :
    IF Len(words) <= max_words THEN Join(words, <<" ">>)
    ELSE RStripSet(Join(Slice(words, 1, max_words), <<" ">>), TrimPunct))

RECURSIVE clean_tags_loop(_, _, _)
\* the for loop of clean_tags on the tags not yet seen, out being the list so far
clean_tags_loop(tags0, out0, max_tags) ==
  Bind(tags0, LAMBDA tags : Bind(out0, LAMBDA out :
    IF Len(tags) = 0 THEN out
    ELSE Bind(StripSet(ReplaceRuns(Lower(Head(tags))), {"-"}), LAMBDA t2 :
           Bind(IF t2 # <<>> /\ t2 \notin Range(out) THEN Append(out, t2) ELSE out,
                LAMBDA out2 :
             IF Len(out2) >= max_tags THEN out2
             ELSE clean_tags_loop(Tail(tags), out2, max_tags)))))

MaxTags == 5

clean_tags(tags) == clean_tags_loop(tags, <<>>, MaxTags)

\* a slugify that leaves the dashes at the two ends
slugify_unstripped(name) == CollapseDashes(ReplaceRuns(Lower(name)))

slugify(name) == StripSet(CollapseDashes(ReplaceRuns(Lower(name))), {"-"})

(***************************************************************************)
(* Optional values: None is <<>>, a value x is <<x>>                       *)
(***************************************************************************)

None == <<>>

Some(x) == <<x>>

(***************************************************************************)
(* The random module.  The generator state is one integer; random.seed(s)  *)
(* sets it from the characters of s and every random.choice advances it.   *)
(* The Mersenne Twister is replaced by a linear congruential generator:    *)
(* what the model keeps is that a draw is a function of the seed and of    *)
(* the number of draws since the seed was set.                             *)
(***************************************************************************)

RECURSIVE SeedSum(_, _)
SeedSum(s, i) ==
  IF i > Len(s) THEN 0 ELSE (Ord(s[i]) * (i + 7) + SeedSum(s, i + 1)) % 65537

\* random.seed(s)
random_seed(s0) == Bind(s0, LAMBDA s : SeedSum(s, 1))

\* the generator state after one draw
rng_step(x) == (x * 75 + 74) % 65537

\* random.choice(seq) on the state x reached by the draw
rng_pick(seq, x) == seq[((x \div 7) % Len(seq)) + 1]

\* the state of a process that has not called random.seed
Unseeded == 0 - 1

adjectives ==
  << <<"q","u","a","n","t","u","m">>,
     <<"m","i","n","i","m","a","l">>,
     <<"s","e","r","v","e","r","l","e","s","s">>,
     <<"e","d","g","e">>,
     <<"a","m","b","i","e","n","t">>,
     <<"s","t","r","e","a","m","i","n","g">>,
     <<"f","u","z","z","y">>,
     <<"s","e","m","a","n","t","i","c">>,
     <<"t","e","m","p","o","r","a","l">>,
     <<"r","e","a","l","t","i","m","e">>,
     <<"z","e","r","o","-","t","r","u","s","t">>,
     <<"p","r","i","v","a","c","y","-","f","i","r","s","t">>,
     <<"o","f","f","l","i","n","e","-","f","i","r","s","t">>,
     <<"f","e","d","e","r","a","t","e","d">> >>

domains ==
  << <<"n","o","t","e","s">>,
     <<"s","e","a","r","c","h">>,
     <<"s","c","h","e","d","u","l","e","r">>,
     <<"w","e","b","h","o","o","k","s">>,
     <<"e","t","l">>,
     <<"d","a","s","h","b","o","a","r","d">>,
     <<"o","b","s","e","r","v","a","b","i","l","i","t","y">>,
     <<"v","e","c","t","o","r","-","s","t","o","r","e">>,
     <<"r","e","c","o","m","m","e","n","d","a","t","i","o","n","s">>,
     <<"g","r","a","p","h","q","l","-","g","a","t","e","w","a","y">>,
     <<"a","u","d","i","o","-","t","r","a","n","s","c","r","i","b","e">>,
     <<"i","m","a","g","e","-","a","n","n","o","t","a","t","o","r">>,
     <<"f","e","a","t","u","r","e","-","f","l","a","g","s">>,
     <<"s","e","c","r","e","t","s","-","r","o","t","a","t","o","r">> >>

modalities ==
  << <<"c","l","i">>,
     <<"w","e","b","a","p","p">>,
     <<"s","e","r","v","i","c","e">>,
     <<"s","d","k">>,
     <<"a","g","e","n","t">>,
     <<"d","a","e","m","o","n">>,
     <<"e","x","t","e","n","s","i","o","n">> >>

verbs ==
  << <<"g","e","n","e","r","a","t","e">>,
     <<"s","y","n","c","h","r","o","n","i","z","e">>,
     <<"m","o","n","i","t","o","r">>,
     <<"s","u","m","m","a","r","i","z","e">>,
     <<"c","l","a","s","s","i","f","y">>,
     <<"t","r","a","n","s","c","o","d","e">>,
     <<"i","n","d","e","x">>,
     <<"s","i","m","u","l","a","t","e">>,
     <<"s","c","r","a","p","e">>,
     <<"n","o","r","m","a","l","i","z","e">>,
     <<"v","i","s","u","a","l","i","z","e">> >>

targets ==
  << <<"g","i","t","h","u","b"," ","i","s","s","u","e","s">>,
     <<"r","s","s"," ","f","e","e","d","s">>,
     <<"e","m","a","i","l">>,
     <<"l","o","g"," ","f","i","l","e","s">>,
     <<"b","r","o","w","s","e","r"," ","h","i","s","t","o","r","y">>,
     <<"a","p","i"," ","r","e","s","p","o","n","s","e","s">>,
     <<"p","d","f","s">>,
     <<"s","c","r","e","e","n","s","h","o","t","s">>,
     <<"t","e","r","m","i","n","a","l"," ","s","e","s","s","i","o","n","s">>,
     <<"c","o","n","f","i","g"," ","f","i","l","e","s">> >>

\* lines 139-148 of offline_idea_seed: the five draws on generator state x0, the
\* candidate made of them and the generator state they leave
offline_draws(x0) ==
  LET x1 == rng_step(x0)
      x2 == rng_step(x1)
      x3 == rng_step(x2)
      x4 == rng_step(x3)
      x5 == rng_step(x4)
      adj == rng_pick(adjectives, x1)
      dom == rng_pick(domains, x2)
      mod == rng_pick(modalities, x3)
      verb == rng_pick(verbs, x4)
      tgt == rng_pick(targets, x5)
  IN  [idea |-> [title |-> adj \o <<" ">> \o dom \o <<" ">> \o mod,
                 summary |-> <<"A"," ">> \o mod \o <<" ","t","h","a","t"," ","c","a","n"," ">> \o verb \o <<" ","a","n","d"," ","m","a","n","a","g","e"," ">> \o tgt
                             \o <<" ","w","i","t","h"," ","a"," ","f","o","c","u","s"," ","o","n"," ">> \o adj \o <<" ">> \o dom \o <<".">>,
                 tags |-> SortedSeq({adj, dom, mod})],
       rng |-> x5]

\* offline_idea_seed(today): the candidate and the generator state it leaves
offline_idea_seed(seed) == offline_draws(random_seed(seed))

\* offline_idea_seed that seeds the generator only when nothing has seeded it
\* yet, and draws on from its state otherwise
offline_idea_unseeded(x, seed) ==
  offline_draws(IF x = Unseeded THEN random_seed(seed) ELSE x)

\* offline_idea_seed(seed) called when the generator is in state x: line 79
\* seeds the generator, whatever x is
offline_idea_call(x, seed) == offline_idea_seed(seed)

SuffixAlphabet == LowerLetters \o Digits

\* "".join(random.choice("abc...789") for _ in range(4)) on generator state x
random_suffix(x) ==
  LET y1 == rng_step(x)
      y2 == rng_step(y1)
      y3 == rng_step(y2)
      y4 == rng_step(y3)
  IN  [text |-> <<rng_pick(SuffixAlphabet, y1), rng_pick(SuffixAlphabet, y2),
                  rng_pick(SuffixAlphabet, y3), rng_pick(SuffixAlphabet, y4)>>,
       rng |-> y4]

(***************************************************************************)
(* Remote providers: the parse of the completion text                      *)
(***************************************************************************)

\* first index >= i of s that holds no whitespace, Len(s) + 1 when there is none
SkipSpace(s, i) == FirstNotIn(s, Whitespace, i)

\* last index of the line of s that index i is on
LineEnd(s, i) == FirstIn(s, {"\n"}, i) - 1

\* the match of (?i)<key>\s*[:\-]\s*(.+) that starts at index i: the index where
\* the group starts, 0 when there is no match at i.  content is stripped, so the
\* whitespace after the separator is followed by a character of the group or by
\* the end of the text
FieldAt(content, key, i) ==
  IF ~(/\ i + Len(key) - 1 <= Len(content)
       /\ \A k \in 1..Len(key) : LowerChar(content[i + k - 1]) = key[k]) THEN 0
  ELSE Bind(SkipSpace(content, i + Len(key)), LAMBDA q :
         IF q > Len(content) \/ content[q] \notin {":", "-"} THEN 0
         ELSE Bind(SkipSpace(content, q + 1), LAMBDA r :
                IF r > Len(content) THEN 0 ELSE r))

\* re.search(r"(?i)<key>\s*[:\-]\s*(.+)", content): group 1 of the leftmost match
FieldSearch(content0, key) ==
  Bind(content0, LAMBDA content :
    Bind({i \in 1..Len(content) : FieldAt(content, key, i) # 0}, LAMBDA at :
      IF at = {} THEN None
      ELSE Bind(FieldAt(content, key, MinOf(at)), LAMBDA r :
             Some(Slice(content, r, LineEnd(content, r))))))

\* [t.strip().strip("#") for t in pieces if t.strip()]
TagPieces(pieces0) ==
  Bind(pieces0, LAMBDA pieces :
    Bind(SelectSeq(pieces, LAMBDA t : Strip(t) # <<>>), LAMBDA kept :
      [k \in 1..Len(kept) |-> StripSet(Strip(kept[k]), {"#"})]))

FirstLineLen == 60

\* lines 179-189 of openai_idea and 233-242 of azure_openai_idea: the candidate
\* parsed from the completion text, None when the parse raises
ParseCompletion(raw) ==
  Bind(Strip(raw), LAMBDA content :
    Bind(FieldSearch(content, <<"t","i","t","l","e">>), LAMBDA title_match :
      Bind(FieldSearch(content, <<"s","u","m","m","a","r","y">>), LAMBDA summary_match :
        Bind(FieldSearch(content, <<"t","a","g","s">>), LAMBDA tags_match :
          Bind(SplitLines(content), LAMBDA lines :
            IF title_match = None /\ lines = <<>> THEN None
            ELSE Some([title |-> IF title_match # None THEN Strip(title_match[1])
                                 ELSE Take(lines[1], FirstLineLen),
                       summary |-> IF summary_match # None THEN Strip(summary_match[1])
                                   ELSE <<>>,
                       tags |-> IF tags_match = None THEN <<>>
                                ELSE Take(TagPieces(SplitEach(tags_match[1], {",", "|"})),
                                          MaxTags)]))))))

\* openai_idea: reply is None when the request or the JSON decoding raises,
\* Some(text) when the service answered with that completion text
openai_idea(reply) == IF reply = None THEN None ELSE ParseCompletion(reply[1])

\* azure_openai_idea: as openai_idea, on the deployment endpoint
azure_openai_idea(reply) == IF reply = None THEN None ELSE ParseCompletion(reply[1])


(***************************************************************************)
(* Bounds and inputs                                                       *)
(***************************************************************************)

\* orchestrator processes started in one behaviour with a date and an
\* environment of their own
MaxRuns == 2

\* calls the generator process makes
MaxDraws == 4

\* processes that repeat the invocation before them
MaxRepeats == 1

\* enrichment jobs run in one behaviour
MaxJobs == 2

\* main: attempts
Attempts == 6

\* the limits of main's limit_words calls
TitleWords == 8

SummaryWords == 35

\* the dates FORCE_DATE (or the clock) takes: two days of one month and the
\* same day of the next year
Dates ==
  { [y |-> 2025, m |-> 1, d |-> 1],
    [y |-> 2025, m |-> 1, d |-> 2],
    [y |-> 2026, m |-> 1, d |-> 1] }

\* datetime.date.max
DateMax == [y |-> 9999, m |-> 12, d |-> 31]

\* the dates a backfill range is made of: the two days of 2025 and the last day
\* a date can hold
BackfillDates ==
  { [y |-> 2025, m |-> 1, d |-> 1],
    [y |-> 2025, m |-> 1, d |-> 2],
    DateMax }

AllDates == Dates \cup BackfillDates

\* sys.argv[1:] of backfill.py, every argument a well-formed date: no argument,
\* one argument, one day, two days, end before start, and the last day of all
BackfillArgs ==
  { <<>>,
    << [y |-> 2025, m |-> 1, d |-> 1] >>,
    << [y |-> 2025, m |-> 1, d |-> 1], [y |-> 2025, m |-> 1, d |-> 1] >>,
    << [y |-> 2025, m |-> 1, d |-> 1], [y |-> 2025, m |-> 1, d |-> 2] >>,
    << [y |-> 2025, m |-> 1, d |-> 2], [y |-> 2025, m |-> 1, d |-> 1] >>,
    << DateMax, DateMax >> }

\* d + dt.timedelta(days=1): None when the day after d is past date.max, where
\* the sum raises OverflowError
NextDay(d) ==
  IF d = DateMax THEN None
  ELSE IF d.d < DaysInMonth(d.y, d.m) THEN Some([d EXCEPT !.d = d.d + 1])
  ELSE IF d.m < 12 THEN Some([y |-> d.y, m |-> d.m + 1, d |-> 1])
  ELSE Some([y |-> d.y + 1, m |-> 1, d |-> 1])

\* a <= b on datetime.date
DateLE(a, b) ==
  \/ a.y < b.y
  \/ a.y = b.y /\ a.m < b.m
  \/ a.y = b.y /\ a.m = b.m /\ a.d <= b.d

\* today[:7]
MonthOf(iso) == Take(iso, 7)

Months == {MonthOf(IsoFormat(d)) : d \in AllDates}

\* the environment of a process: which variables are set (non-empty), and
\* gh_up, whether the requests to api.github.com are answered (they raise
\* otherwise)
OfflineEnv ==
  [az_key |-> FALSE, az_endpoint |-> FALSE, az_deployment |-> FALSE,
   oa_key |-> FALSE, gh_token |-> TRUE, validate_gh |-> TRUE, gh_up |-> TRUE]

RemoteEnv ==
  [az_key |-> TRUE, az_endpoint |-> TRUE, az_deployment |-> TRUE,
   oa_key |-> TRUE, gh_token |-> FALSE, validate_gh |-> TRUE, gh_up |-> TRUE]

PartialEnv ==
  [az_key |-> TRUE, az_endpoint |-> FALSE, az_deployment |-> TRUE,
   oa_key |-> FALSE, gh_token |-> TRUE, validate_gh |-> FALSE, gh_up |-> FALSE]

Envs == {OfflineEnv, RemoteEnv, PartialEnv}

\* OpenAI alone configured, and a name search whose requests raise
SearchDownEnv ==
  [az_key |-> FALSE, az_endpoint |-> FALSE, az_deployment |-> FALSE,
   oa_key |-> TRUE, gh_token |-> TRUE, validate_gh |-> TRUE, gh_up |-> FALSE]

\* both backends configured, and a name search that answers
FullEnv ==
  [az_key |-> TRUE, az_endpoint |-> TRUE, az_deployment |-> TRUE,
   oa_key |-> TRUE, gh_token |-> TRUE, validate_gh |-> TRUE, gh_up |-> TRUE]

\* the environments of the runs that go through the providers round by round
RoundEnvs == {RemoteEnv, PartialEnv, SearchDownEnv, FullEnv}

\* the environment of the orchestrator in the pipeline
PipelineEnvs == {OfflineEnv}

\* the seed strings of the offline_idea_seed calls of the generator process: a
\* date, its rounds 0 and 1, and another date
Seeds ==
  { IsoFormat([y |-> 2025, m |-> 1, d |-> 1]),
    IsoFormat([y |-> 2025, m |-> 1, d |-> 1]) \o <<"-", "0">>,
    IsoFormat([y |-> 2025, m |-> 1, d |-> 1]) \o <<"-", "1">>,
    IsoFormat([y |-> 2025, m |-> 1, d |-> 2]) }

\* the title the exhaustion path builds for date d (lines 369-371)
FallbackTitle(d) ==
  LET base == offline_idea_seed(IsoFormat(d))
  IN  base.idea.title \o <<" ">> \o random_suffix(base.rng).text

LongSummary ==
  <<"S","u","m","m","a","r","y",":"," ","w"," ","w"," ","w"," ","w"," ","w"," ","w"," ","w"," ","w"," ","w"," ","w"," ","w"," ","w"," ","w"," ","w"," ","w"," ","w"," ","w"," ","w"," ","w"," ","w"," ","w"," ","w"," ","w"," ","w"," ","w"," ","w"," ","w"," ","w"," ","w"," ","w"," ","w"," ","w"," ","w"," ","w"," ","w"," ","w">>

\* completion texts a remote backend may answer with
Completions ==
  { \* a title of nine words, a summary of 36 words, six tags with repeats
    <<"T","i","t","l","e",":"," ","a"," ","b"," ","c"," ","d"," ","e"," ","f"," ","g"," ","h"," ","i","\n">> \o LongSummary \o <<"\n","T","a","g","s",":"," ","X",","," ","x",","," ","Y"," ","y","|","#","z",","," ","w",","," ","v">>,
    \* no Title: line at all
    <<"P","o","c","k","e","t"," ","g","a","r","d","e","n"," ","p","l","a","n","n","e","r">>,
    \* a well-formed answer whose title quotes another date
    <<"T","i","t","l","e",":"," ","R","e","c","a","p"," ","2","0","2","5","-","0","1","-","0","2","\n","S","u","m","m","a","r","y",":"," ","N","o","t","e","s",".","\n","T","a","g","s",":"," ","#","L","o","g",","," ","c","l","i">>,
    \* the very title the exhaustion path builds for 2025-01-02
    <<"T","i","t","l","e",":"," ">> \o FallbackTitle([y |-> 2025, m |-> 1, d |-> 2]),
    \* the very title of the offline candidate of round 0 of 2026-01-01
    <<"T","i","t","l","e",":"," ">>
      \o offline_idea_seed(IsoFormat([y |-> 2026, m |-> 1, d |-> 1]) \o <<"-", "0">>).idea.title,
    \* a title without a letter or a digit
    <<"T","i","t","l","e",":"," ","!","!","!">> }

\* what a remote call comes back with: None when the request raises
Replies == {None} \cup {Some(c) : c \in Completions}

\* the values the model computes once: the parse of each reply, the offline
\* candidate of each round and the base of the exhaustion path of each date
OpenAiIdeas == [r \in Replies |-> openai_idea(r)]

AzureIdeas == [r \in Replies |-> azure_openai_idea(r)]

ReplyHasTitle == [r \in Replies |-> r # None /\ FieldSearch(Strip(r[1]), <<"t","i","t","l","e">>) # None]

\* offline candidates that are seeded with the date alone in every round
OfflineRoundsSame ==
  [d \in AllDates |-> [k \in 0..(Attempts - 1) |-> offline_idea_seed(IsoFormat(d))]]

OfflineRounds ==
  [d \in AllDates |-> [k \in 0..(Attempts - 1) |-> offline_idea_seed(IsoFormat(d) \o <<"-">> \o IntStr(k))]]

OfflineBase == [d \in AllDates |-> offline_idea_seed(IsoFormat(d))]

\* lines 347-353 on the offline candidate of round k: slug_try
RoundSlug(d, k) == slugify(Strip(OfflineRounds[d][k].idea.title))

\* lines 358-360 on the offline candidate of round k: the repaired slug_try
RepairSlug(d, k) ==
  slugify(Strip(OfflineRounds[d][k].idea.title) \o <<" ", "(">> \o IntStr(k + 1) \o <<")">>)

\* the repository names the search finds on GitHub: every name the offline
\* rounds of 2025-01-02 try, both names of round 0 of 2025-01-01 and the first
\* name of round 0 of 2026-01-01
TakenNames ==
  {RoundSlug([y |-> 2025, m |-> 1, d |-> 2], k) : k \in 0..(Attempts - 1)}
    \cup {RepairSlug([y |-> 2025, m |-> 1, d |-> 2], k) : k \in 0..(Attempts - 1)}
    \cup {RoundSlug([y |-> 2025, m |-> 1, d |-> 1], 0),
          RepairSlug([y |-> 2025, m |-> 1, d |-> 1], 0),
          RoundSlug([y |-> 2026, m |-> 1, d |-> 1], 0)}

(***************************************************************************)
(* Files                                                                   *)
(***************************************************************************)

\* a text file: the lines of read_text().splitlines(); every write of the code
\* ends the file with a newline
NoFile == [exists |-> FALSE, lines |-> <<>>]

\* a line of a .jsonl file on which json.loads raises
BadLine == [raw |-> "not json"]

IsObj(line) == "date" \in DOMAIN line

\* today in text.splitlines(): a test that asks for a line equal to the date
TextHasLine(file, sub) == \E i \in 1..Len(file.lines) : file.lines[i] = sub

\* a test that reads the first line of the log alone
TextHeadContains(file, sub) == file.lines # <<>> /\ Contains(file.lines[1], sub)

\* today in month_path.read_text(): the date holds no newline, so it is in the
\* text exactly when it is in one line
TextContains(file, sub) == \E i \in 1..Len(file.lines) : Contains(file.lines[i], sub)

IsDateAt(s, a) ==
  /\ a + 9 <= Len(s)
  /\ \A k \in {0, 1, 2, 3, 5, 6, 8, 9} : IsDigit(s[a + k])
  /\ s[a + 4] = "-"
  /\ s[a + 7] = "-"

\* re.match(r"^###\s+\d{4}-\d{2}-\d{2}\s+[—-]\s+(.+)$", line.strip()): the group,
\* None when the line is no heading
HeadingMatch(line) ==
  Bind(Strip(line), LAMBDA s :
    Bind(SkipSpace(s, 4), LAMBDA a :
      Bind(SkipSpace(s, a + 10), LAMBDA b :
        Bind(SkipSpace(s, b + 1), LAMBDA c :
          IF /\ StartsAt(s, <<"#", "#", "#">>, 1)
             /\ a > 4
             /\ IsDateAt(s, a)
             /\ b > a + 10
             /\ b <= Len(s)
             /\ s[b] \in {EmDash, "-"}
             /\ c > b + 1
             /\ c <= Len(s)
          THEN Some(Slice(s, c, Len(s)))
          ELSE None))))

\* the titles of the headings of one file
HeadingTitles(file) ==
  Bind(SelectSeq([i \in 1..Len(file.lines) |-> HeadingMatch(file.lines[i])],
                 LAMBDA m : m # None),
       LAMBDA found : {Strip(found[k][1]) : k \in 1..Len(found)})

\* list_existing_idea_slugs over the files ideas/*.md
list_existing_idea_slugs(logs) ==
  UNION { {slugify(t) : t \in HeadingTitles(logs[m])} : m \in {n \in Months : logs[n].exists} }

\* a name search that reports every name as found when its request raises
repo_name_exists_closed(slug, token, up) ==
  IF ~token THEN FALSE
  ELSE IF ~up THEN TRUE
  ELSE slug \in TakenNames

\* github_repo_name_exists(slug, token): TRUE when the search answers with an
\* item of that exact name; a request that raises answers FALSE
github_repo_name_exists(slug, token, up) ==
  IF ~token THEN FALSE
  ELSE IF ~up THEN FALSE
  ELSE slug \in TakenNames

\* main.is_unique
is_unique(slug, seen, e) ==
  IF slug \in seen THEN FALSE
  ELSE IF e.validate_gh /\ github_repo_name_exists(slug, e.gh_token, e.gh_up) THEN FALSE
  ELSE TRUE

\* whether is_unique(slug) sends the search request
SearchSent(slug, seen, e) == slug \notin seen /\ e.validate_gh /\ e.gh_token

\* lines 376-386 and 414-423: the record of the accepted idea
MakeRecord(cand, d, e) ==
  Bind(IsoFormat(d), LAMBDA iso :
    Bind(limit_words(Strip(cand.title), TitleWords), LAMBDA title :
      Bind(IF slugify(title) # <<>> THEN slugify(title) ELSE <<"i","d","e","a">>,
           LAMBDA slug :
        [date |-> iso,
         concept |-> title,
         summary |-> limit_words(Strip(cand.summary), SummaryWords),
         tags |-> clean_tags(cand.tags),
         theme |-> day_theme(d),
         slug |-> slug,
         repo_name |-> slug \o <<"-">> \o iso,
         source |-> IF e.az_key THEN "azure" ELSE IF e.oa_key THEN "openai" ELSE "offline",
         ai_summary |-> None])))

\* [f"`{t}`" for t in tags]
QuoteAll(tags) == [k \in 1..Len(tags) |-> <<Backtick>> \o tags[k] \o <<Backtick>>]

\* lines 388-399: the lines of the markdown entry, the empty ones removed
Entry(r) ==
  SelectSeq(
    << <<"#","#","#"," ">> \o r.date \o <<" ", EmDash, " ">> \o r.concept,
       <<"T","h","e","m","e",":"," ">> \o <<Backtick>> \o r.theme \o <<Backtick>>,
       <<"R","e","p","o",":"," ">> \o <<Backtick>> \o r.repo_name \o <<Backtick>>,
       IF r.tags # <<>> THEN <<"T","a","g","s",":"," ">> \o Join(QuoteAll(r.tags), <<",", " ">>) ELSE <<>>,
       IF r.summary # <<>> THEN <<"S","u","m","m","a","r","y",":"," ">> \o r.summary ELSE <<>> >>,
    LAMBDA line : line # <<>>)

Header(iso) ==
  << <<"#"," ","I","d","e","a"," ","L","o","g"," ">> \o <<EmDash, " ">> \o MonthOf(iso),
     <<>>,
     <<"D","a","i","l","y"," ","r","e","p","o","s","i","t","o","r","y"," ","i","d","e","a","s"," ","(","g","e","n","e","r","a","t","e","d"," ","a","u","t","o","m","a","t","i","c","a","l","l","y",")",".">>,
     <<>> >>

\* a write that replaces the month log by the header and the new entry
WriteEntryTruncate(file, r) ==
  [exists |-> TRUE, lines |-> Header(r.date) \o Entry(r)]

\* lines 401-411: the month log after the write
WriteEntry(file, r) ==
  IF ~file.exists
    THEN [exists |-> TRUE, lines |-> Header(r.date) \o Entry(r)]
    ELSE [exists |-> TRUE, lines |-> file.lines \o << <<>> >> \o Entry(r)]

\* lines 430-441: the scan of the month .jsonl for today's record; a line that
\* json.loads rejects ends the scan with already still False
AlreadyLogged(file, iso) ==
  /\ file.exists
  /\ \E i \in 1..Len(file.lines) :
       /\ IsObj(file.lines[i])
       /\ file.lines[i].date = iso
       /\ \A j \in 1..(i - 1) : IsObj(file.lines[j])

\* lines 442-444
AppendRecord(file, r, iso) ==
  IF AlreadyLogged(file, iso) THEN file
  ELSE [exists |-> TRUE, lines |-> Append(file.lines, r)]

(***************************************************************************)
(* Enrichment: build_ai_summary.py and build_ai_summaries_history.py       *)
(***************************************************************************)

\* what a chat backend answers with when asked for a summary: an object of the
\* two wanted fields, and an object that lacks "examples"
GoodContent ==
  [text |-> <<"T","r","a","c","k","s"," ","s","p","e","n","d",".">>,
   examples |-> << <<"S","h","i","p"," ","i","t">>, <<"M","e","a","s","u","r","e"," ","i","t">>, <<"S","h","a","r","e"," ","i","t">> >>]

PartContent == [text |-> <<"T","r","a","c","k","s"," ","s","p","e","n","d",".">>]

\* None when the request raises, the key is unset or the content is empty
SummaryContents == {None, Some(GoodContent), Some(PartContent)}

\* _azure_chat_complete, content being what the deployment answers
azure_chat_complete(e, content) ==
  IF ~(e.az_key /\ e.az_endpoint /\ e.az_deployment) THEN None ELSE content

\* _openai_chat_complete
openai_chat_complete(e, content) == IF ~e.oa_key THEN None ELSE content

\* _article
article(word) ==
  IF word # <<>> /\ LowerChar(word[1]) \in {"a", "e", "i", "o", "u"}
    THEN <<"a", "n">> ELSE <<"a">>

\* _fallback_summary
fallback_summary(concept, summary, theme, tags) ==
  Bind(Strip(IF concept # <<>> THEN concept ELSE <<"i","d","e","a">>), LAMBDA cz :
    Bind(Strip(summary), LAMBDA base0 :
      Bind(IF base0 = <<>> \/ Lower(base0) = Lower(cz)
             THEN <<"B","u","i","l","d"," ">> \o article(cz) \o <<" ">> \o cz
                    \o <<" ","t","o"," ","d","e","m","o","n","s","t","r","a","t","e"," ","t","h","e"," ","c","o","r","e"," ","v","a","l","u","e"," ","q","u","i","c","k","l","y",".">>
             ELSE base0, LAMBDA base :
        Bind((IF theme # <<>>
                THEN << <<"I","t"," ","a","l","i","g","n","s"," ","t","o"," ","t","h","e"," ">> \o theme \o <<" ","t","h","e","m","e">> >> ELSE <<>>)
             \o (IF tags # <<>>
                   THEN << <<"t","o","u","c","h","i","n","g"," ">> \o Join(Take(tags, 4), <<",", " ">>) >>
                   ELSE <<>>), LAMBDA extras :
          Bind(IF extras # <<>> THEN <<" ">> \o Join(extras, <<";", " ">>) \o <<".">>
               ELSE <<>>, LAMBDA extra_txt :
            Bind(Lower(cz), LAMBDA short_cz :
              [text |-> Strip(base \o extra_txt),
               examples |->
                 << <<"S","h","i","p"," ","a"," ","t","i","n","y"," ">> \o short_cz \o <<" ","p","r","o","t","o","t","y","p","e"," ","e","n","d","-","t","o","-","e","n","d"," ","(","R","E","A","D","M","E"," ","+"," ","d","e","m","o",")">>,
                    <<"I","n","t","e","g","r","a","t","e"," ">> \o short_cz \o <<" ","i","n","t","o"," ","a","n"," ","e","x","i","s","t","i","n","g"," ","r","e","p","o"," ","a","n","d"," ","a","d","d"," ","b","a","s","i","c"," ","m","e","t","r","i","c","s">>,
                    <<"I","n","s","t","r","u","m","e","n","t"," ">> \o short_cz
                      \o <<" ","a","n","d"," ","c","a","p","t","u","r","e"," ","b","e","f","o","r","e","/","a","f","t","e","r"," ","r","e","s","u","l","t","s"," ","f","o","r"," ","o","n","e"," ","w","o","r","k","f","l","o","w">> >>,
               source |-> "offline"]))))))

\* a summarize that keeps the name of the backend that answered on the offline
\* composition it falls back to
summarize_answered(obj, e, az, oa, now) ==
  Bind(azure_chat_complete(e, az), LAMBDA c1 :
    Bind(IF c1 # None THEN c1 ELSE openai_chat_complete(e, oa), LAMBDA content :
      Bind(IF content # None /\ DOMAIN content[1] = {"text", "examples"}
             THEN [text |-> content[1].text, examples |-> content[1].examples]
             ELSE fallback_summary(IF obj.concept # <<>> THEN obj.concept ELSE <<"I","d","e","a">>,
                                   obj.summary, obj.theme, obj.tags),
           LAMBDA out :
        [text |-> out.text, examples |-> out.examples,
         source |-> IF content = None THEN "offline"
                    ELSE IF c1 # None THEN "azure" ELSE "openai",
         generated_at |-> now])))

\* build_ai_summaries_history.summarize, and lines 250-297 of
\* build_ai_summary.main: the summary of one record.  az and oa are what the two
\* backends answer, now is the clock
summarize(obj, e, az, oa, now) ==
  Bind(azure_chat_complete(e, az), LAMBDA c1 :
    Bind(IF c1 # None THEN c1 ELSE openai_chat_complete(e, oa), LAMBDA content :
      Bind(IF content # None /\ DOMAIN content[1] = {"text", "examples"}
             THEN [text |-> content[1].text,
                   examples |-> content[1].examples,
                   source |-> IF c1 # None THEN "azure" ELSE "openai"]
             ELSE fallback_summary(IF obj.concept # <<>> THEN obj.concept ELSE <<"I","d","e","a">>,
                                   obj.summary, obj.theme, obj.tags),
           LAMBDA out :
        [text |-> out.text, examples |-> out.examples, source |-> out.source,
         generated_at |-> now])))

\* the lines of a month .jsonl as the two jobs rewrite them: ai[i] is None for
\* a line left as it is and Some(summary) for a record that gets that summary
SetSummaries(file, ai) ==
  [exists |-> file.exists,
   lines |-> [i \in 1..Len(file.lines) |->
                IF ai[i] = None THEN file.lines[i]
                ELSE [file.lines[i] EXCEPT !.ai_summary = ai[i]]]]

\* lines 307-330 of build_ai_summary.main with the summary stored under
\* "summary" instead of "ai_summary"
rewrite_summary_field(file, date, out) ==
  [exists |-> file.exists,
   lines |-> [i \in 1..Len(file.lines) |->
                IF IsObj(file.lines[i]) /\ file.lines[i].date = date
                  THEN [file.lines[i] EXCEPT !.summary = out.text]
                  ELSE file.lines[i]]]

\* lines 307-330 of build_ai_summary.main: the month .jsonl with the summary
\* set on the records of the date of latest.json
rewrite_for_date(file, date, out) ==
  SetSummaries(file, [i \in 1..Len(file.lines) |->
                       IF IsObj(file.lines[i]) /\ file.lines[i].date = date
                         THEN Some(out) ELSE None])

\* build_recent.load_items: the records of every month file in the order of
\* the sorted file names, then sorted newest first by date
RECURSIVE load_items(_, _)
load_items(logs, months) ==
  IF months = {} THEN <<>>
  ELSE Bind(CHOOSE m \in months : \A n \in months : m = n \/ StrLess(m, n), LAMBDA first :
         SelectSeq(logs[first].lines, IsObj) \o load_items(logs, months \ {first}))

RECURSIVE SortNewest(_)
\* list.sort(key=date, reverse=True): stable, so of two records of one date the
\* earlier stays first
SortNewest(items0) ==
  Bind(items0, LAMBDA items :
    IF Len(items) = 0 THEN <<>>
    ELSE Bind(CHOOSE i \in 1..Len(items) :
                \A j \in 1..Len(items) :
                  \/ StrLess(items[j].date, items[i].date)
                  \/ (items[j].date = items[i].date /\ j >= i), LAMBDA top :
           <<items[top]>>
             \o SortNewest([k \in 1..(Len(items) - 1) |->
                              IF k < top THEN items[k] ELSE items[k + 1]])))

RecentItems == 10

\* build_recent.main: the content of docs/recent.json
build_recent(logs) == Take(SortNewest(load_items(logs, Months)), RecentItems)

(***************************************************************************)
(* State                                                                   *)
(***************************************************************************)

VARIABLES
  md,          \* ideas/YYYY-MM.md, by month
  jsonl,       \* ideas/YYYY-MM.jsonl, by month
  latest,      \* docs/latest.json
  green,       \* .green/todays_idea.json
  aiFile,      \* docs/ai_summary.json
  recent,      \* docs/recent.json
  pc,          \* position of the orchestrator process
  today_dt,    \* main: today_dt
  env,         \* the environment of the orchestrator process
  seen_slugs,  \* main: seen_slugs
  attempt,     \* main: attempt, the rounds completed
  idea,        \* main: idea
  record,      \* main: record
  rng,         \* the state of the random module
  rc,          \* exit status of the last orchestrator process
  runs,        \* orchestrator processes started
  repeats,     \* of them, the repeats of the invocation before
  jobs,        \* enrichment jobs run, which is also the clock
  path,        \* how the run got its idea: "skip", "loop", "fallback"
  via,         \* the provider the idea's candidate came from
  titled,      \* whether the candidate's completion held a Title: match
  rounds,      \* rounds of the retry loop this run went through
  roundCalls,  \* the calls of the last round, in order
  roundGot,    \* for each provider call of the last round, whether it gave a candidate
  checked,     \* the is_unique calls of the last round: the slug and the answer
  tried,       \* the slugs is_unique examined in this run
  fallbacks,   \* times the exhaustion path was taken in this run
  fresh,       \* the logs held no entry for the date when the run started
  pair,        \* the run follows a run for the same date that started fresh and ended 0
  updated,     \* entries the last enrichment job gave a new ai_summary
  rewritten,   \* month .jsonl files the last enrichment job wrote
  calls,       \* requests this run sent to each remote backend
  children,    \* the dates of the orchestrator processes a backfill started
  memo,        \* what the first offline_idea_seed call of each seed returned
  lastCall,    \* the last offline_idea_seed call: its seed and what it returned
  draws,       \* calls made on the random module in the generator process
  lastSummary, \* the last summarize call: its arguments and what it returned
  bf_pc,       \* position of the backfill process
  bf_start,    \* backfill.main: start
  bf_end,      \* backfill.main: end
  bf_d,        \* backfill.main: d
  base_env,    \* backfill.main: the environment of the child processes
  bf_done,     \* dates the loop of backfill.main is through with
  failures,    \* backfill.main: failures
  codes,       \* the exit status of each child, in order
  bf_rc        \* exit status of the backfill process

files == <<md, jsonl, latest, green>>

enrich == <<aiFile, recent, jobs, updated, rewritten>>

process ==
  <<pc, today_dt, env, seen_slugs, attempt, idea, record, rng, rc, runs, repeats,
    path, via, titled, rounds, roundCalls, roundGot, checked, tried, fallbacks, fresh, pair, calls, children>>

generator == <<memo, lastCall, draws, lastSummary>>

backfill == <<bf_pc, bf_start, bf_end, bf_d, base_env, bf_done, failures, codes, bf_rc>>

vars == <<files, enrich, process, generator, backfill>>

today == IsoFormat(today_dt)

\* the enrichment jobs a behaviour may run: a backfill runs one per date and one
\* at its end
JobBudget == IF bf_pc = "none" THEN MaxJobs ELSE MaxRuns + 1

month == MonthOf(today)

\* the date of an entry heading, None for a line that is no heading
HeadingDate(line) ==
  IF \A k \in 1..Len(line) : line[k] # "#" THEN None
  ELSE IF HeadingMatch(line) = None THEN None
  ELSE Bind(Strip(line), LAMBDA s :
         Bind(SkipSpace(s, 4), LAMBDA a : Some(Slice(s, a, a + 9))))

\* the lines of a month log that are the entry heading of date iso
HeadingsFor(file, iso) ==
  {i \in 1..Len(file.lines) : HeadingDate(file.lines[i]) = Some(iso)}

\* the lines of a month .jsonl that are the record of date iso
RecordsFor(file, iso) ==
  {i \in 1..Len(file.lines) : IsObj(file.lines[i]) /\ file.lines[i].date = iso}

Init ==
  /\ md = [m \in Months |-> NoFile]
  /\ \E bad \in BOOLEAN :
       jsonl = [m \in Months |-> IF bad THEN [exists |-> TRUE, lines |-> <<BadLine>>]
                                 ELSE NoFile]
  /\ latest = None
  /\ green = None
  /\ aiFile = None
  /\ recent = None
  /\ pc = "idle"
  /\ today_dt = CHOOSE d \in Dates : TRUE
  /\ env = CHOOSE e \in Envs : TRUE
  /\ seen_slugs = {}
  /\ attempt = 0
  /\ idea = None
  /\ record = None
  /\ rng = Unseeded
  /\ rc = 0
  /\ runs = 0
  /\ repeats = 0
  /\ jobs = 0
  /\ path = "none"
  /\ via = "none"
  /\ titled = FALSE
  /\ rounds = 0
  /\ roundCalls = <<>>
  /\ roundGot = <<>>
  /\ checked = <<>>
  /\ tried = {}
  /\ fallbacks = 0
  /\ fresh = FALSE
  /\ pair = FALSE
  /\ updated = 0
  /\ rewritten = {}
  /\ calls = [azure |-> 0, openai |-> 0]
  /\ children = <<>>
  /\ memo = [s \in Seeds |-> None]
  /\ lastCall = None
  /\ draws = 0
  /\ lastSummary = None
  /\ bf_pc = "none"
  /\ bf_start = None
  /\ bf_end = None
  /\ bf_d = None
  /\ base_env = CHOOSE e \in Envs : TRUE
  /\ bf_done = 0
  /\ failures = 0
  /\ codes = <<>>
  /\ bf_rc = 0

(***************************************************************************)
(* daily_idea.main                                                         *)
(***************************************************************************)

\* lines 296-321: start of the process, the idempotency check and the scan.
\* MaxRuns processes start with any date and environment; after them the last
\* invocation is repeated up to MaxRepeats times
Begin(d, e) ==
  /\ pc \in {"idle", "done"}
  /\ \/ /\ runs < MaxRuns
        /\ repeats' = repeats
     \/ /\ runs >= MaxRuns
        /\ repeats < MaxRepeats
        /\ d = today_dt
        /\ e = env
        /\ repeats' = repeats + 1
  /\ runs' = runs + 1
  /\ today_dt' = d
  /\ env' = e
  /\ rng' = Unseeded
  /\ attempt' = 0
  /\ idea' = None
  /\ record' = None
  /\ via' = "none"
  /\ titled' = FALSE
  /\ rounds' = 0
  /\ roundCalls' = <<>>
  /\ roundGot' = <<>>
  /\ checked' = <<>>
  /\ tried' = {}
  /\ fallbacks' = 0
  /\ rc' = 0
  /\ calls' = [azure |-> 0, openai |-> 0]
  /\ children' = IF bf_pc = "loop" THEN Append(children, d) ELSE children
  /\ \E iso \in {IsoFormat(d)} :
       /\ fresh' = (/\ HeadingsFor(md[MonthOf(iso)], iso) = {}
                    /\ RecordsFor(jsonl[MonthOf(iso)], iso) = {})
       /\ pair' = (pc = "done" /\ today_dt = d /\ fresh /\ rc = 0)
       /\ IF md[MonthOf(iso)].exists /\ TextContains(md[MonthOf(iso)], iso)
            THEN /\ pc' = "done"
                 /\ path' = "skip"
                 /\ seen_slugs' = {}
            ELSE /\ pc' = "loop"
                 /\ path' = "none"
                 /\ seen_slugs' = list_existing_idea_slugs(md)
  /\ UNCHANGED <<files, enrich, generator, backfill>>

\* a qualifier that is the round index itself
repair_title_index(title_try, k) == title_try \o <<" ", "(">> \o IntStr(k) \o <<")">>

\* line 360: the title with the qualifier of round k
repair_title(title_try, k) == title_try \o <<" ", "(">> \o IntStr(k + 1) \o <<")">>

\* a round that asks OpenAI whenever its key is set, whatever Azure returned
provider_calls_both(e, azReply, oaReply) ==
  LET azOn == e.az_key /\ e.az_endpoint /\ e.az_deployment
  IN  (IF azOn THEN <<[name |-> "azure", got |-> AzureIdeas[azReply],
                       titled |-> ReplyHasTitle[azReply]]>>
       ELSE <<>>)
      \o (IF e.oa_key THEN <<[name |-> "openai", got |-> OpenAiIdeas[oaReply],
                              titled |-> ReplyHasTitle[oaReply]]>>
          ELSE <<>>)

\* a round that sends the Azure request a second time when the first gave
\* nothing
provider_calls_retry(e, azReply, oaReply) ==
  LET azOn == e.az_key /\ e.az_endpoint /\ e.az_deployment
      c1 == IF azOn THEN AzureIdeas[azReply] ELSE None
      oaOn == c1 = None /\ e.oa_key
      az == [name |-> "azure", got |-> c1, titled |-> ReplyHasTitle[azReply]]
  IN  (IF azOn THEN (IF c1 = None THEN <<az, az>> ELSE <<az>>) ELSE <<>>)
      \o (IF oaOn THEN <<[name |-> "openai", got |-> OpenAiIdeas[oaReply],
                          titled |-> ReplyHasTitle[oaReply]]>>
          ELSE <<>>)

\* lines 333-348: the requests one round sends to the remote backends, in order,
\* each with the candidate it returned
provider_calls(e, azReply, oaReply) ==
  LET azOn == e.az_key /\ e.az_endpoint /\ e.az_deployment
      c1 == IF azOn THEN AzureIdeas[azReply] ELSE None
      oaOn == c1 = None /\ e.oa_key
  IN  (IF azOn THEN <<[name |-> "azure", got |-> c1, titled |-> ReplyHasTitle[azReply]]>>
       ELSE <<>>)
      \o (IF oaOn THEN <<[name |-> "openai", got |-> OpenAiIdeas[oaReply],
                          titled |-> ReplyHasTitle[oaReply]]>>
          ELSE <<>>)

\* lines 332-365: one round of the retry loop.  azReply and oaReply are what
\* the two backends answer when called
Round(azReply, oaReply) ==
  /\ pc = "loop"
  /\ attempt < Attempts
  /\ (env.az_key /\ env.az_endpoint /\ env.az_deployment) \/ azReply = None
  /\ env.oa_key \/ oaReply = None
  /\ \E remote \in {provider_calls(env, azReply, oaReply)} :
     \E hit \in {SelectSeq(remote, LAMBDA c : c.got # None)} :
     \E off \in {OfflineRounds[today_dt][attempt]} :
     \E candidate \in {IF hit # <<>> THEN hit[1].got[1] ELSE off.idea} :
     \E from \in {IF hit # <<>> THEN hit[1].name ELSE "offline"} :
     \E hasTitle \in {IF hit # <<>> THEN hit[1].titled ELSE TRUE} :
     \E title_try \in {Strip(candidate.title)} :
     \E slug0 \in {slugify(title_try)} :
     \E slug_try \in {IF slug0 # <<>> THEN slug0
                      ELSE <<"i","d","e","a","-">> \o IntStr(attempt)} :
     \E unique1 \in {is_unique(slug_try, seen_slugs, env)} :
     \E title2 \in {repair_title(title_try, attempt)} :
     \E slug_try2 \in {slugify(title2)} :
     \E unique2 \in {is_unique(slug_try2, seen_slugs, env)} :
         /\ (\A k \in 1..Len(remote) : remote[k].name # "openai") => oaReply = None
         /\ roundCalls' =
              [k \in 1..Len(remote) |-> remote[k].name]
              \o (IF hit = <<>> THEN <<"offline">> ELSE <<>>)
              \o (IF SearchSent(slug_try, seen_slugs, env) THEN <<"search">> ELSE <<>>)
              \o (IF ~unique1 /\ SearchSent(slug_try2, seen_slugs, env)
                    THEN <<"search">> ELSE <<>>)
         /\ roundGot' =
              [k \in 1..Len(remote) |-> remote[k].got # None]
              \o (IF hit = <<>> THEN <<TRUE>> ELSE <<>>)
         /\ checked' =
              <<[title |-> title_try, slug |-> slug_try, unique |-> unique1]>>
              \o (IF unique1 THEN <<>>
                  ELSE <<[title |-> title2, slug |-> slug_try2, unique |-> unique2]>>)
         /\ rounds' = rounds + 1
         /\ calls' =
              [azure |-> calls.azure
                           + Cardinality({k \in 1..Len(remote) : remote[k].name = "azure"}),
               openai |-> calls.openai
                            + Cardinality({k \in 1..Len(remote) : remote[k].name = "openai"})]
         /\ rng' = IF hit = <<>> THEN off.rng ELSE rng
         /\ tried' = tried \cup {slug_try} \cup (IF unique1 THEN {} ELSE {slug_try2})
         /\ IF unique1
              THEN /\ idea' = Some(candidate)
                   /\ pc' = "write_md"
                   /\ path' = "loop"
                   /\ via' = from
                   /\ titled' = hasTitle
                   /\ attempt' = attempt
              ELSE IF unique2
                THEN /\ idea' = Some([candidate EXCEPT !.title = title2])
                     /\ pc' = "write_md"
                     /\ path' = "loop"
                     /\ via' = from
                     /\ titled' = hasTitle
                     /\ attempt' = attempt
                ELSE /\ idea' = None
                     /\ attempt' = attempt + 1
                     /\ UNCHANGED <<pc, path, via, titled>>
  /\ UNCHANGED <<files, enrich, today_dt, env, seen_slugs, record, rc, runs, repeats,
                 fallbacks, fresh, pair, children, generator, backfill>>

\* the exhaustion path sending the run back into the retry loop
FallbackRetry ==
  /\ pc = "loop"
  /\ attempt = Attempts
  /\ idea = None
  /\ attempt' = 0
  /\ fallbacks' = fallbacks + 1
  /\ UNCHANGED <<files, enrich, pc, today_dt, env, seen_slugs, idea, record, rng, rc, runs,
                 repeats, path, via, titled, rounds, roundCalls, roundGot, checked, tried, fresh, pair, calls, children, generator, backfill>>

\* lines 367-372: the exhaustion path
Fallback ==
  /\ pc = "loop"
  /\ attempt = Attempts
  /\ idea = None
  /\ \E base \in {OfflineBase[today_dt]} :
     \E suffix \in {random_suffix(base.rng)} :
         /\ idea' = Some([base.idea EXCEPT !.title = base.idea.title \o <<" ">> \o suffix.text])
         /\ rng' = suffix.rng
  /\ pc' = "write_md"
  /\ path' = "fallback"
  /\ via' = "offline"
  /\ titled' = TRUE
  /\ fallbacks' = fallbacks + 1
  /\ roundCalls' = <<"offline">>
  /\ roundGot' = <<TRUE>>
  /\ checked' = <<>>
  /\ UNCHANGED <<files, enrich, today_dt, env, seen_slugs, attempt, record, rc, runs,
                 repeats, rounds, tried, fresh, pair, calls, children, generator, backfill>>

\* lines 376-423: Normalize, the write of the month log, the record
WriteMarkdown ==
  /\ pc = "write_md"
  /\ \E r \in {MakeRecord(idea[1], today_dt, env)} :
       /\ md' = [md EXCEPT ![month] = WriteEntry(md[month], r)]
       /\ record' = Some(r)
  /\ pc' = "write_green"
  /\ UNCHANGED <<jsonl, latest, green, enrich, today_dt, env, seen_slugs, attempt, idea,
                 rng, rc, runs, repeats, path, via, titled, rounds, roundCalls, roundGot, checked, tried, fallbacks,
                 fresh, pair, calls, children, generator, backfill>>

\* lines 425-427
WriteScratch ==
  /\ pc = "write_green"
  /\ green' = record
  /\ pc' = "write_jsonl"
  /\ UNCHANGED <<md, jsonl, latest, enrich, today_dt, env, seen_slugs, attempt, idea,
                 record, rng, rc, runs, repeats, path, via, titled, rounds, roundCalls, roundGot, checked, tried,
                 fallbacks, fresh, pair, calls, children, generator, backfill>>

\* lines 429-444
WriteJsonl ==
  /\ pc = "write_jsonl"
  /\ jsonl' = [jsonl EXCEPT ![month] = AppendRecord(jsonl[month], record[1], today)]
  /\ pc' = "write_latest"
  /\ UNCHANGED <<md, latest, green, enrich, today_dt, env, seen_slugs, attempt, idea,
                 record, rng, rc, runs, repeats, path, via, titled, rounds, roundCalls, roundGot, checked, tried,
                 fallbacks, fresh, pair, calls, children, generator, backfill>>

\* a write of docs/latest.json that leaves an existing snapshot as it is
WriteLatestKeep ==
  /\ pc = "write_latest"
  /\ latest' = IF latest = None THEN record ELSE latest
  /\ pc' = "done"
  /\ rc' = 0
  /\ UNCHANGED <<md, jsonl, green, enrich, today_dt, env, seen_slugs, attempt, idea,
                 record, rng, runs, repeats, path, via, titled, rounds, roundCalls, roundGot,
                 checked, tried, fallbacks, fresh, pair, calls, children, generator, backfill>>

\* lines 446-450
WriteLatest ==
  /\ pc = "write_latest"
  /\ latest' = record
  /\ pc' = "done"
  /\ rc' = 0
  /\ UNCHANGED <<md, jsonl, green, enrich, today_dt, env, seen_slugs, attempt, idea,
                 record, rng, runs, repeats, path, via, titled, rounds, roundCalls, roundGot, checked, tried,
                 fallbacks, fresh, pair, calls, children, generator, backfill>>

\* a failed write that is passed over: the process goes on to the next write
PersistFailContinue ==
  /\ pc \in {"write_md", "write_green", "write_jsonl"}
  /\ pc' = (CASE pc = "write_md" -> "write_green"
              [] pc = "write_green" -> "write_jsonl"
              [] pc = "write_jsonl" -> "write_latest")
  /\ rc' = 1
  /\ UNCHANGED <<files, enrich, today_dt, env, seen_slugs, attempt, idea, record, rng,
                 runs, repeats, path, via, titled, rounds, roundCalls, roundGot, checked,
                 tried, fallbacks, fresh, pair, calls, children, generator, backfill>>

\* a write of lines 401-447 raises (OSError): the exception is not caught, the
\* process ends with status 1 and the file of the failing write is as it was
PersistFail ==
  /\ pc \in {"write_md", "write_green", "write_jsonl", "write_latest"}
  /\ pc' = "done"
  /\ rc' = 1
  /\ UNCHANGED <<files, enrich, today_dt, env, seen_slugs, attempt, idea, record, rng,
                 runs, repeats, path, via, titled, rounds, roundCalls, roundGot, checked, tried, fallbacks, fresh,
                 pair, calls, children, generator, backfill>>

(***************************************************************************)
(* The enrichment jobs                                                     *)
(***************************************************************************)

\* build_ai_summary.main, run between two orchestrator processes in environment
\* e; az and oa are what the two chat backends answer
BuildAiSummary(e, az, oa) ==
  /\ pc \in {"idle", "done"}
  /\ jobs < JobBudget
  /\ jobs' = jobs + 1
  /\ (e.az_key /\ e.az_endpoint /\ e.az_deployment) \/ az = None
  /\ (e.oa_key /\ azure_chat_complete(e, az) = None) \/ oa = None
  /\ IF latest = None
       THEN /\ updated' = 0
            /\ rewritten' = {}
            /\ UNCHANGED <<jsonl, latest, green, aiFile>>
       ELSE \E j \in {latest[1]} :
            \E out \in {summarize(j, e, az, oa, jobs + 1)} :
            \E m \in {MonthOf(j.date)} :
            \E hit \in {{i \in RecordsFor(jsonl[m], j.date) :
                           jsonl[m].lines[i].ai_summary # Some(out)}} :
              /\ latest' = Some([j EXCEPT !.ai_summary = Some(out)])
              /\ aiFile' = Some(out)
              /\ jsonl' = [jsonl EXCEPT ![m] = rewrite_for_date(jsonl[m], j.date, out)]
              /\ updated' = Cardinality(hit)
              /\ rewritten' = IF hit # {} THEN {m} ELSE {}
              /\ green' = IF green = None THEN None
                          ELSE Some([green[1] EXCEPT !.ai_summary = Some(out)])
  /\ UNCHANGED <<md, recent, process, generator, backfill>>

\* build_ai_summaries_history.main with or without --overwrite, and the
\* build_recent.py it runs at its end
BuildHistory(overwrite, e, az, oa) ==
  /\ pc \in {"idle", "done"}
  /\ jobs < JobBudget
  /\ jobs' = jobs + 1
  /\ (e.az_key /\ e.az_endpoint /\ e.az_deployment) \/ az = None
  /\ (e.oa_key /\ azure_chat_complete(e, az) = None) \/ oa = None
  /\ \E todo \in {[m \in Months |->
                     {i \in 1..Len(jsonl[m].lines) :
                        /\ IsObj(jsonl[m].lines[i])
                        /\ jsonl[m].lines[i].ai_summary = None \/ overwrite}]} :
       /\ jsonl' = [m \in Months |->
                      SetSummaries(jsonl[m],
                                   [i \in 1..Len(jsonl[m].lines) |->
                                      IF i \in todo[m]
                                        THEN Some(summarize(jsonl[m].lines[i], e, az, oa,
                                                            jobs + 1))
                                        ELSE None])]
       /\ updated' = Cardinality(UNION {{<<m, i>> : i \in todo[m]} : m \in Months})
       /\ rewritten' = {m \in Months : todo[m] # {}}
  /\ recent' = Some(build_recent(jsonl'))
  /\ UNCHANGED <<md, latest, green, aiFile, process, generator, backfill>>

(***************************************************************************)
(* The random module in one process: offline_idea_seed calls and the       *)
(* suffix draws of the exhaustion path, in any order                       *)
(***************************************************************************)

\* a call offline_idea_seed(seed)
CallOffline(seed) ==
  /\ draws < MaxDraws
  /\ draws' = draws + 1
  /\ \E r \in {offline_idea_call(rng, seed)} :
       /\ rng' = r.rng
       /\ lastCall' = Some([seed |-> seed, idea |-> r.idea, from |-> rng,
                            again |-> memo[seed] # None])
       /\ memo' = IF memo[seed] = None THEN [memo EXCEPT ![seed] = Some(r.idea)] ELSE memo
  /\ UNCHANGED <<files, enrich, backfill, pc, today_dt, env, seen_slugs, attempt, idea,
                 record, rc, runs, repeats, path, via, titled, rounds, roundCalls, roundGot,
                 checked, tried, fallbacks, fresh, pair, calls, children, lastSummary>>

\* line 370: the four draws of the suffix, which follow an offline_idea_seed call
DrawSuffix ==
  /\ draws < MaxDraws
  /\ rng # Unseeded
  /\ draws' = draws + 1
  /\ rng' = random_suffix(rng).rng
  /\ UNCHANGED <<files, enrich, backfill, memo, lastCall, pc, today_dt, env, seen_slugs,
                 attempt, idea, record, rc, runs, repeats, path, via, titled, rounds,
                 roundCalls, roundGot, checked, tried, fallbacks, fresh, pair, calls, children,
                 lastSummary>>

\* a call summarize(concept, summary, theme, tags) on the fields of the record
\* of the first offline candidate of date d, in environment e; az and oa are
\* what the two chat backends answer
SummarizeCall(d, e, az, oa) ==
  /\ draws < MaxDraws
  /\ draws' = draws + 1
  /\ (e.az_key /\ e.az_endpoint /\ e.az_deployment) \/ az = None
  /\ (e.oa_key /\ azure_chat_complete(e, az) = None) \/ oa = None
  /\ \E obj \in {MakeRecord(OfflineRounds[d][0].idea, d, e)} :
       lastSummary' = Some([obj |-> obj, e |-> e, az |-> az, oa |-> oa,
                            out |-> summarize(obj, e, az, oa, draws + 1)])
  /\ UNCHANGED <<files, enrich, process, backfill, memo, lastCall>>

(***************************************************************************)
(* backfill.py.  The child processes are the orchestrator and the          *)
(* enrichment jobs above; subprocess.run returns when the child has ended. *)
(* The loop is at date number bf_done + 1 of the range: its orchestrator   *)
(* has not started while runs = bf_done, and its build_ai_summary.py has   *)
(* not run while jobs = bf_done.                                           *)
(***************************************************************************)

\* lines 49-62: the arguments and the start of the loop; e is os.environ with
\* local.env
BackfillMain(args, e) ==
  /\ bf_pc = "none"
  /\ pc = "idle"
  /\ base_env' = e
  /\ IF Len(args) # 2
       THEN /\ bf_pc' = "returned"
            /\ bf_rc' = 2
            /\ UNCHANGED <<bf_start, bf_end, bf_d>>
       ELSE IF ~DateLE(args[1], args[2])
         THEN /\ bf_pc' = "returned"
              /\ bf_rc' = 2
              /\ UNCHANGED <<bf_start, bf_end, bf_d>>
         ELSE /\ bf_pc' = "loop"
              /\ bf_start' = Some(args[1])
              /\ bf_end' = Some(args[2])
              /\ bf_d' = Some(args[1])
              /\ bf_rc' = 0
  /\ UNCHANGED <<files, enrich, process, generator, bf_done, failures, codes>>

\* the loop is at a date of the range
InRange == bf_pc = "loop" /\ DateLE(bf_d[1], bf_end[1])

\* lines 36-40 of run_for_date: the orchestrator with FORCE_DATE set to d
run_for_date ==
  /\ InRange
  /\ runs = bf_done
  /\ jobs = bf_done
  /\ Begin(bf_d[1], base_env)

\* lines 41-46 of run_for_date: build_ai_summary.py once the orchestrator has ended
run_for_date_summary ==
  /\ InRange
  /\ runs = bf_done + 1
  /\ jobs = bf_done
  /\ pc = "done"
  /\ \E az \in SummaryContents, oa \in SummaryContents : BuildAiSummary(base_env, az, oa)

\* lines 64-68 with a break after the failure count
BackfillStepBreak ==
  /\ InRange
  /\ runs = bf_done + 1
  /\ jobs = bf_done + 1
  /\ codes' = Append(codes, rc)
  /\ failures' = failures + (IF rc # 0 THEN 1 ELSE 0)
  /\ bf_done' = bf_done + 1
  /\ IF NextDay(bf_d[1]) = None
       THEN /\ bf_pc' = "returned"
            /\ bf_rc' = 1
            /\ bf_d' = bf_d
       ELSE /\ bf_d' = IF rc # 0 THEN NextDay(bf_end[1]) ELSE NextDay(bf_d[1])
            /\ UNCHANGED <<bf_pc, bf_rc>>
  /\ UNCHANGED <<files, enrich, process, generator, bf_start, bf_end, base_env>>

\* lines 64-68: the exit status of the child, the failure count, the next day.
\* The OverflowError of the sum is not caught: the process ends with status 1
BackfillStep ==
  /\ InRange
  /\ runs = bf_done + 1
  /\ jobs = bf_done + 1
  /\ codes' = Append(codes, rc)
  /\ failures' = failures + (IF rc # 0 THEN 1 ELSE 0)
  /\ bf_done' = bf_done + 1
  /\ IF NextDay(bf_d[1]) = None
       THEN /\ bf_pc' = "returned"
            /\ bf_rc' = 1
            /\ bf_d' = bf_d
       ELSE /\ bf_d' = NextDay(bf_d[1])
            /\ UNCHANGED <<bf_pc, bf_rc>>
  /\ UNCHANGED <<files, enrich, process, generator, bf_start, bf_end, base_env>>

\* lines 70-98: the builders after the loop; of them the model has
\* build_recent.py and build_ai_summaries_history.py, which ends with
\* build_recent.py itself
BackfillBuild ==
  /\ bf_pc = "loop"
  /\ ~DateLE(bf_d[1], bf_end[1])
  /\ runs = bf_done
  /\ jobs = bf_done
  /\ \E az \in SummaryContents, oa \in SummaryContents : BuildHistory(FALSE, base_env, az, oa)

\* lines 100-101
BackfillReturn ==
  /\ bf_pc = "loop"
  /\ ~DateLE(bf_d[1], bf_end[1])
  /\ jobs = bf_done + 1
  /\ bf_pc' = "returned"
  /\ bf_rc' = IF failures = 0 THEN 0 ELSE 1
  /\ UNCHANGED <<files, enrich, process, generator, bf_start, bf_end, bf_d, base_env,
                 bf_done, failures, codes>>

(***************************************************************************)
(* Specifications                                                          *)
(***************************************************************************)

\* the orchestrator alone, in every environment
Next ==
  \/ \E d \in Dates, e \in Envs : Begin(d, e)
  \/ \E azReply \in Replies, oaReply \in Replies : Round(azReply, oaReply)
  \/ Fallback
  \/ WriteMarkdown
  \/ WriteScratch
  \/ WriteJsonl
  \/ WriteLatest
  \/ PersistFail

Spec == Init /\ [][Next]_vars

\* the pipeline: orchestrator processes in the environment of the scheduled
\* workflow, with the enrichment jobs between them
PipelineNext ==
  \/ \E d \in Dates, e \in PipelineEnvs : Begin(d, e)
  \/ \E azReply \in Replies, oaReply \in Replies : Round(azReply, oaReply)
  \/ Fallback
  \/ WriteMarkdown
  \/ WriteScratch
  \/ WriteJsonl
  \/ WriteLatest
  \/ PersistFail
  \/ \E e \in Envs, az \in SummaryContents, oa \in SummaryContents : BuildAiSummary(e, az, oa)
  \/ \E overwrite \in BOOLEAN, e \in Envs, az \in SummaryContents, oa \in SummaryContents :
       BuildHistory(overwrite, e, az, oa)

Pipeline == Init /\ [][PipelineNext]_vars

\* one process that calls offline_idea_seed and draws suffixes
GeneratorNext ==
  \/ \E seed \in Seeds : CallOffline(seed)
  \/ DrawSuffix

Generator == Init /\ [][GeneratorNext]_vars

\* one backfill over an empty repository
BackfillNext ==
  \/ \E args \in BackfillArgs, e \in PipelineEnvs : BackfillMain(args, e)
  \/ run_for_date
  \/ \E azReply \in Replies, oaReply \in Replies : Round(azReply, oaReply)
  \/ Fallback
  \/ WriteMarkdown
  \/ WriteScratch
  \/ WriteJsonl
  \/ WriteLatest
  \/ PersistFail
  \/ run_for_date_summary
  \/ BackfillStep
  \/ BackfillBuild
  \/ BackfillReturn

Backfill == Init /\ [][BackfillNext]_vars

\* summarize on the record of the first offline candidate of each date, in
\* every environment
SummariesNext ==
  \E d \in Dates, e \in Envs \cup RoundEnvs, az \in SummaryContents, oa \in SummaryContents :
    SummarizeCall(d, e, az, oa)

Summaries == Init /\ [][SummariesNext]_vars

\* the orchestrator alone, in the environments with a remote backend, on two
\* days of one month and with every write succeeding
RoundsNext ==
  \/ \E d \in Dates \cap BackfillDates, e \in RoundEnvs : Begin(d, e)
  \/ \E azReply \in Replies, oaReply \in Replies : Round(azReply, oaReply)
  \/ Fallback
  \/ WriteMarkdown
  \/ WriteScratch
  \/ WriteJsonl
  \/ WriteLatest

Rounds == Init /\ [][RoundsNext]_vars


(***************************************************************************)
(* Properties                                                              *)
(***************************************************************************)

\* len(text.split())
WordCount(text) == Len(SplitRuns(text, Whitespace))

\* the core fields of a record
Core(r) ==
  [date |-> r.date, concept |-> r.concept, summary |-> r.summary, tags |-> r.tags,
   theme |-> r.theme, slug |-> r.slug, repo_name |-> r.repo_name, source |-> r.source]

\* the month log of date d holds the date string
DateInLog(d) ==
  \E iso \in {IsoFormat(d)} :
    /\ md[MonthOf(iso)].exists
    /\ \E i \in 1..Len(md[MonthOf(iso)].lines) : Contains(md[MonthOf(iso)].lines[i], iso)

\* C1: when a run for a date that had no entry in the logs ends with status 0
\* and the next run, for the same date, ends with status 0 too, the month log
\* holds exactly one heading of that date and the month .jsonl exactly one
\* record of that date.
IdempotentPair ==
  (pc = "done" /\ pair /\ rc = 0)
    => /\ Cardinality(HeadingsFor(md[month], today)) = 1
       /\ Cardinality(RecordsFor(jsonl[month], today)) = 1

\* C2: a run that finds its date string in the month log ends at once with
\* status 0, leaves the month log, the .jsonl, latest.json and the scratch file
\* as they were and calls no provider and no search.
SkipWritesNothing ==
  [][\A d \in Dates, e \in Envs :
       (Begin(d, e) /\ DateInLog(d))
         => /\ pc' = "done"
            /\ rc' = 0
            /\ rounds' = 0
            /\ roundCalls' = <<>>
            /\ UNCHANGED <<md, jsonl, latest, green>>]_vars

\* C2, its case: a run that skipped, over a log that holds its date
SkipHappened ==
  /\ pc = "done"
  /\ path = "skip"
  /\ DateInLog(today_dt)
  /\ latest # None

\* the run has ended with status 0 and its record is in the month log, in the
\* month .jsonl and in latest.json
Persisted ==
  /\ pc = "done"
  /\ rc = 0
  /\ record # None
  /\ latest = record
  /\ RecordsFor(jsonl[month], today) # {}

\* C3: a run whose candidate was accepted inside the retry loop persists a
\* record whose slug is none of the slugs the logs held when the run started.
LoopSlugIsNew ==
  (Persisted /\ path = "loop") => record[1].slug \notin seen_slugs

\* C4: a run that took the exhaustion path persists a record whose slug is
\* none of the slugs the logs held when the run started and none of the slugs
\* the run examined in its rounds.
FallbackSlugIsNew ==
  (Persisted /\ path = "fallback")
    => /\ record[1].slug \notin seen_slugs
       /\ record[1].slug \notin tried

\* C5: every month .jsonl holds at most one record of a date and every month
\* log at most one heading of a date, also when the .jsonl began with a line
\* that is no JSON.
OneEntryPerDate ==
  \A m \in Months :
    \E heads \in {[i \in 1..Len(md[m].lines) |-> HeadingDate(md[m].lines[i])]} :
      /\ \A i, j \in 1..Len(heads) : (heads[i] # None /\ heads[i] = heads[j]) => i = j
      /\ \A i, j \in 1..Len(jsonl[m].lines) :
           (/\ IsObj(jsonl[m].lines[i])
            /\ IsObj(jsonl[m].lines[j])
            /\ jsonl[m].lines[i].date = jsonl[m].lines[j].date) => i = j

\* C5, its case: the date was run for twice, the second run skipped, and its
\* record stands after a line that is no JSON
RepeatOverBadLine ==
  /\ pc = "done"
  /\ path = "skip"
  /\ repeats = 1
  /\ Len(jsonl[month].lines) >= 2
  /\ ~IsObj(jsonl[month].lines[1])
  /\ RecordsFor(jsonl[month], today) # {}
  /\ HeadingsFor(md[month], today) # {}

\* C6: a step of any operation leaves every record of a month .jsonl in its
\* place with its core fields as they were, and does not take an ai_summary
\* away.
RecordsKept ==
  [][\A m \in Months : \A i \in 1..Len(jsonl[m].lines) :
       IsObj(jsonl[m].lines[i])
         => /\ i <= Len(jsonl'[m].lines)
            /\ IsObj(jsonl'[m].lines[i])
            /\ Core(jsonl'[m].lines[i]) = Core(jsonl[m].lines[i])
            /\ DOMAIN jsonl'[m].lines[i] = DOMAIN jsonl[m].lines[i]
            /\ jsonl[m].lines[i].ai_summary # None
                 => jsonl'[m].lines[i].ai_summary # None]_vars

\* C6, its case: a month .jsonl holds two records, the first one enriched by
\* a job before the orchestrator appended the second
EnrichedThenAppended ==
  \E m \in Months :
    /\ Len(jsonl[m].lines) >= 2
    /\ IsObj(jsonl[m].lines[1])
    /\ IsObj(jsonl[m].lines[2])
    /\ jsonl[m].lines[1].ai_summary # None
    /\ jsonl[m].lines[2].ai_summary = None
    /\ jobs >= 1

\* every record of the month .jsonl files has an ai_summary
AllEnriched ==
  \A m \in Months : \A i \in 1..Len(jsonl[m].lines) :
    IsObj(jsonl[m].lines[i]) => jsonl[m].lines[i].ai_summary # None

\* C7: an enrichment job that is not asked to overwrite leaves the ai_summary of
\* every record that has one as it was, and build_ai_summaries_history without
\* --overwrite over records that all have one updates no entry and writes no
\* file.
EnrichmentIdempotent ==
  [][/\ ((\E e \in Envs, az \in SummaryContents, oa \in SummaryContents :
            BuildAiSummary(e, az, oa) \/ BuildHistory(FALSE, e, az, oa))
          => \A m \in Months : \A i \in 1..Len(jsonl[m].lines) :
               (IsObj(jsonl[m].lines[i]) /\ jsonl[m].lines[i].ai_summary # None)
                 => jsonl'[m].lines[i].ai_summary = jsonl[m].lines[i].ai_summary)
     /\ ((AllEnriched /\ \E e \in Envs, az \in SummaryContents, oa \in SummaryContents :
                           BuildHistory(FALSE, e, az, oa))
          => (updated' = 0 /\ rewritten' = {}))]_vars

\* C8: a record whose candidate came from a remote provider comes from a
\* completion that held a Title: line.
RemoteTitleMatched ==
  (Persisted /\ via \in {"azure", "openai"}) => titled

\* the steps a run still has before it: the rounds left and the writes
Measure ==
  CASE pc = "loop" -> 5 + (Attempts - attempt)
    [] pc = "write_md" -> 4
    [] pc = "write_green" -> 3
    [] pc = "write_jsonl" -> 2
    [] pc = "write_latest" -> 1
    [] OTHER -> 0

\* a step of the run that is no failure of a write
RunStep ==
  \/ \E azReply \in Replies, oaReply \in Replies : Round(azReply, oaReply)
  \/ Fallback
  \/ WriteMarkdown
  \/ WriteScratch
  \/ WriteJsonl
  \/ WriteLatest

\* C9: a run goes through at most 6 rounds, takes the exhaustion path at most
\* once and only after 6 rejected rounds, is past the retry loop from then on,
\* always has a step to take until it ends, and every step brings it nearer to
\* its end.
RunTerminates ==
  /\ [](/\ rounds <= Attempts
        /\ attempt <= Attempts
        /\ fallbacks <= 1
        /\ fallbacks = 1 => (pc # "loop" /\ path = "fallback" /\ rounds = Attempts)
        /\ pc \notin {"idle", "done"} => ENABLED RunStep)
  /\ [][pc \notin {"idle", "done"} => Measure' < Measure]_vars

\* C9, its case: a run that ended with status 0 after six rejected rounds and
\* the exhaustion path
ExhaustedRunEnded ==
  /\ pc = "done"
  /\ rc = 0
  /\ path = "fallback"
  /\ rounds = Attempts
  /\ fallbacks = 1
  /\ latest = record

\* C10: the record of a run has a concept of at most 8 words, a summary of at
\* most 35 words and at most 5 tags, each a non-empty string of the characters
\* a-z, 0-9 and -, no two of them equal.
RecordNormalized ==
  record # None
    => /\ WordCount(record[1].concept) <= 8
       /\ WordCount(record[1].summary) <= 35
       /\ Len(record[1].tags) <= 5
       /\ \A i \in 1..Len(record[1].tags) :
            /\ record[1].tags[i] # <<>>
            /\ \A k \in 1..Len(record[1].tags[i]) :
                 record[1].tags[i][k] \in Range(LowerLetters) \cup Range(Digits) \cup {"-"}
            /\ \A j \in 1..Len(record[1].tags) : record[1].tags[j] = record[1].tags[i] => j = i

\* C10, its case: a record made of a completion with a title of nine words, a
\* summary of 36 words and six tags, two of them equal but for their case
LongCompletionPersisted ==
  /\ pc = "done"
  /\ rc = 0
  /\ record # None
  /\ via = "azure"
  /\ WordCount(idea[1].title) = 9
  /\ WordCount(idea[1].summary) = 36
  /\ WordCount(record[1].concept) = 8
  /\ WordCount(record[1].summary) = 35
  /\ latest = record

\* C11: a call of offline_idea_seed returns the title, summary and tags that
\* the first call with the same seed string returned, whatever state the calls
\* in between left the generator in.
OfflineDeterministic ==
  lastCall # None => memo[lastCall[1].seed] = Some(lastCall[1].idea)

\* C11, its case: a seed called again, on a generator that suffix draws have
\* moved on from where an offline_idea_seed call leaves it
SeedCalledAgain ==
  /\ lastCall # None
  /\ lastCall[1].again
  /\ lastCall[1].from # Unseeded
  /\ \A s \in Seeds : lastCall[1].from # offline_idea_seed(s).rng

\* datetime.date.fromisoformat on the date string of a record
DateOfIso(iso) == CHOOSE d \in AllDates : IsoFormat(d) = iso

\* the records of the month .jsonl files and the record of the run
StoredRecords ==
  UNION {{jsonl[m].lines[i] : i \in {k \in 1..Len(jsonl[m].lines) : IsObj(jsonl[m].lines[k])}}
           : m \in Months}
    \cup {record[k] : k \in 1..Len(record)}

\* C12: the theme of every stored record is entry (N - 1) mod 7 of THEMES, N
\* being the day of the year of the record's date, and two records whose dates
\* have the same day of the year have the same theme.
ThemeByDayOfYear ==
  /\ \A r \in StoredRecords :
       r.theme = THEMES[((YDay(DateOfIso(r.date)) - 1) % 7) + 1]
  /\ \A r1, r2 \in StoredRecords :
       YDay(DateOfIso(r1.date)) = YDay(DateOfIso(r2.date)) => r1.theme = r2.theme

\* C12, its case: the logs hold a record of 1 January of one year and a record
\* of 1 January of the next
SameDayNextYear ==
  \E r1, r2 \in StoredRecords :
    /\ DateOfIso(r1.date) = [y |-> 2025, m |-> 1, d |-> 1]
    /\ DateOfIso(r2.date) = [y |-> 2026, m |-> 1, d |-> 1]
    /\ pc = "done"
    /\ rc = 0

\* the dates of a closed range in ascending order
RECURSIVE RangeDates(_, _)
RangeDates(a, b) ==
  IF ~DateLE(a, b) THEN <<>>
  ELSE IF NextDay(a) = None THEN <<a>>
  ELSE <<a>> \o RangeDates(NextDay(a)[1], b)

\* C13: the orchestrator processes a backfill has started are those of the
\* first dates of its range in ascending order, one per date; a process starts
\* only when the one before it has ended and its status has been taken; the
\* failure count is the number of statuses that are not 0; and a backfill that
\* has ended has started a process for every date of the range, whatever the
\* statuses.
BackfillInOrder ==
  bf_start # None
    => \E range \in {RangeDates(bf_start[1], bf_end[1])} :
         /\ Len(children) <= Len(range)
         /\ children = SubSeq(range, 1, Len(children))
         /\ Len(codes) <= Len(children)
         /\ Len(children) <= Len(codes) + 1
         /\ pc \notin {"idle", "done"} => Len(children) = Len(codes) + 1
         /\ failures = Cardinality({i \in 1..Len(codes) : codes[i] # 0})
         /\ bf_pc = "returned" => (children = range /\ Len(codes) = Len(range))

\* C13, its case: a backfill over two days has ended, the process of the first
\* day ended with status 1 and the process of the second with status 0
FailedFirstDay ==
  /\ bf_pc = "returned"
  /\ Len(children) = 2
  /\ codes = <<1, 0>>
  /\ failures = 1

\* C14: a backfill whose arguments are two dates, the second not before the
\* first, ends with status 0 when every orchestrator process ended with status
\* 0 and with status 1 when one did not; any other backfill ends with status 2
\* and has started no process.
BackfillStatus ==
  bf_pc = "returned"
    => /\ bf_start # None
            => /\ bf_rc = 0 <=> \A i \in 1..Len(codes) : codes[i] = 0
               /\ bf_rc = 1 <=> \E i \in 1..Len(codes) : codes[i] # 0
       /\ bf_start = None => (bf_rc = 2 /\ runs = 0 /\ children = <<>>)

\* C15: in a round of a run that has no token, or whose search requests raise,
\* the name search answers 'not found' for every slug is_unique is asked about,
\* is_unique answers by the historical set alone, and a candidate whose slug is
\* not in the historical set is accepted in that round with its title as it is.
NameSearchFailsOpen ==
  [][(rounds' = rounds + 1 /\ (~env.gh_token \/ ~env.gh_up))
       => /\ \A k \in 1..Len(checked') :
               /\ ~github_repo_name_exists(checked'[k].slug, env.gh_token, env.gh_up)
               /\ checked'[k].unique = (checked'[k].slug \notin seen_slugs)
          /\ checked'[1].slug \notin seen_slugs
               => /\ Len(checked') = 1
                  /\ pc' = "write_md"
                  /\ path' = "loop"
                  /\ attempt' = attempt
                  /\ idea' # None
                  /\ Strip(idea'[1].title) = checked'[1].title]_vars

\* C15, its case: a run with a token whose search requests raised has persisted
\* the candidate of its first round, whose slug is the name of a repository on
\* GitHub
SearchDownAccepted ==
  /\ pc = "done"
  /\ rc = 0
  /\ record # None
  /\ env.validate_gh /\ env.gh_token /\ ~env.gh_up
  /\ path = "loop"
  /\ rounds = 1
  /\ Len(checked) = 1
  /\ checked[1].slug \in TakenNames
  /\ checked[1].slug \notin seen_slugs

\* C16: a process ends with a status other than 0 only when one of its writes
\* raised, and a run for a date that had no entry in the logs when it started,
\* whatever the backends answered and whatever the logs held, has ended with
\* status 0 only with exactly one record of its date in the month .jsonl.
RunAlwaysPersists ==
  /\ [][rc' # 0 => pc \in {"write_md", "write_green", "write_jsonl", "write_latest"}]_vars
  /\ []((pc = "done" /\ runs > 0 /\ fresh /\ rc = 0)
          => Cardinality(RecordsFor(jsonl[month], today)) = 1)

\* C17: when a run that did not skip has ended with status 0, docs/latest.json
\* and .green/todays_idea.json each hold the record of that run, the record is
\* of the run's date, and the month .jsonl holds one line of that date, which
\* is equal to the record.
SnapshotsHoldRecord ==
  (pc = "done" /\ rc = 0 /\ path \in {"loop", "fallback"})
    => /\ record # None
       /\ record[1].date = today
       /\ latest = record
       /\ green = record
       /\ Cardinality(RecordsFor(jsonl[month], today)) = 1
       /\ \A i \in RecordsFor(jsonl[month], today) : jsonl[month].lines[i] = record[1]

\* C17, its case: the second persisting run of a behaviour has ended, on a
\* later date of the month whose .jsonl holds the record of the first
SecondRunSnapshot ==
  /\ pc = "done"
  /\ rc = 0
  /\ path = "loop"
  /\ runs = 2
  /\ latest # None
  /\ latest[1].date = today
  /\ \E i \in 1..Len(jsonl[month].lines) :
       /\ IsObj(jsonl[month].lines[i])
       /\ jsonl[month].lines[i].date # today

\* C18: in every step of an orchestrator process each month log keeps its
\* lines as the first lines of its new content and a log that exists goes on
\* existing; only the write of the entry changes a log, and only the log of the
\* run's month; the lines it adds hold exactly one line that starts with ###,
\* which is '### <date> - <title>' (with the long dash) for the run's date and
\* the record's title; and a log that did not exist starts with the title
\* header of its month.
MarkdownAppendOnly ==
  [][/\ \A m \in Months :
          /\ md[m].exists => md'[m].exists
          /\ Len(md[m].lines) <= Len(md'[m].lines)
          /\ SubSeq(md'[m].lines, 1, Len(md[m].lines)) = md[m].lines
          /\ md'[m] # md[m] => (pc = "write_md" /\ pc' = "write_green" /\ m = month)
     /\ (pc = "write_md" /\ pc' = "write_green")
          => LET old == md[month].lines
                 new == md'[month].lines
                 heads == {i \in (Len(old) + 1)..Len(new) :
                             /\ Len(new[i]) >= 3
                             /\ SubSeq(new[i], 1, 3) = <<"#", "#", "#">>}
             IN  /\ Cardinality(heads) = 1
                 /\ \A i \in heads :
                      new[i] = <<"#", "#", "#", " ">> \o today \o <<" ", EmDash, " ">>
                                 \o record'[1].concept
                 /\ ~md[month].exists
                      => new[1] = <<"#"," ","I","d","e","a"," ","L","o","g"," ">>
                                    \o <<EmDash, " ">> \o MonthOf(today)]_vars

\* C18, its case: a run has appended its entry to a month log that held the
\* entry of another date
SecondEntryAppended ==
  /\ pc = "write_green"
  /\ Cardinality({i \in 1..Len(md[month].lines) :
                    HeadingDate(md[month].lines[i]) # None}) = 2
  /\ HeadingsFor(md[month], today) # {}

\* C19: in every round the provider calls are in the order Azure, OpenAI,
\* offline; Azure is called exactly when its key, endpoint and deployment are
\* all set; OpenAI exactly when its key is set and Azure was not called or gave
\* no candidate; the offline generator exactly when no remote call gave a
\* candidate; the last call of the round gave the one candidate of the round
\* and no call before it gave one; and an accepted idea has the provider of
\* that last call.
ProviderOrder ==
  [][rounds' = rounds + 1
       => LET prov == SelectSeq(roundCalls', LAMBDA c : c # "search")
              got == roundGot'
              azOn == env.az_key /\ env.az_endpoint /\ env.az_deployment
              called(p) == \E i \in 1..Len(prov) : prov[i] = p
              gave(p) == \E i \in 1..Len(prov) : prov[i] = p /\ got[i]
          IN  /\ Len(prov) = Len(got)
              /\ Len(prov) >= 1
              /\ \A i, j \in 1..Len(prov) :
                   i < j => \/ prov[i] = "azure" /\ prov[j] \in {"openai", "offline"}
                            \/ prov[i] = "openai" /\ prov[j] = "offline"
              /\ called("azure") <=> azOn
              /\ called("openai") <=> (env.oa_key /\ (~azOn \/ ~gave("azure")))
              /\ called("offline") <=> (~gave("azure") /\ ~gave("openai"))
              /\ Cardinality({i \in 1..Len(got) : got[i]}) = 1
              /\ got[Len(got)]
              /\ idea' # None => via' = prov[Len(prov)]]_vars

\* C19, its case: a run whose accepted idea came from a round in which Azure
\* and OpenAI were called in that order, both gave nothing and the offline
\* generator was called last
AllThreeTried ==
  /\ pc = "done"
  /\ rc = 0
  /\ via = "offline"
  /\ path = "loop"
  /\ SelectSeq(roundCalls, LAMBDA c : c # "search") = <<"azure", "openai", "offline">>
  /\ roundGot = <<FALSE, FALSE, TRUE>>

\* C20: a round sends at most one request to each remote backend; a remote
\* call that gave nothing is followed in its round by the call of another
\* provider; a round ends in the retry loop or with an accepted idea, and never
\* ends the process or changes its status; and a run has sent each backend at
\* most as many requests as it went through rounds, which are at most 6.
RemoteOncePerRound ==
  /\ [][rounds' = rounds + 1
          => /\ \A p \in {"azure", "openai"} :
                  Cardinality({i \in 1..Len(roundCalls') : roundCalls'[i] = p}) <= 1
             /\ calls'.azure <= calls.azure + 1
             /\ calls'.openai <= calls.openai + 1
             /\ \A i \in 1..Len(roundGot') :
                  ~roundGot'[i]
                    => /\ i < Len(roundGot')
                       /\ roundCalls'[i + 1] \in {"openai", "offline"}
                       /\ roundCalls'[i + 1] # roundCalls'[i]
             /\ pc' \in {"loop", "write_md"}
             /\ rc' = rc]_vars
  /\ [](/\ calls.azure <= rounds
         /\ calls.openai <= rounds
         /\ rounds <= Attempts
         /\ calls.azure <= 6
         /\ calls.openai <= 6
         /\ rc = 0)

\* C20, its case: a run in which both backends were called in each of the six
\* rounds and failed every time has ended with status 0 and a record
AllRemoteFailed ==
  /\ pc = "done"
  /\ rc = 0
  /\ record # None
  /\ rounds = 6
  /\ calls.azure = 6
  /\ calls.openai = 6

\* C21: a round asks is_unique about the slug of its candidate's title.  When
\* the answer is yes it asks nothing more and the candidate is accepted with
\* its title as it is.  When the answer is no it asks exactly once more, about
\* the slug of the title followed by ' (k)', k the round index plus one; on yes
\* the candidate is accepted with that title and the loop stops, on no the
\* round ends without an idea and the loop is one round further.  After round
\* 6 without an idea the next step of the run is the exhaustion path.
OneRepairPerRound ==
  [][/\ rounds' = rounds + 1
          => LET c == checked'
                 accepted == /\ pc' = "write_md"
                             /\ path' = "loop"
                             /\ attempt' = attempt
                             /\ idea' # None
             IN  /\ Len(c) \in {1, 2}
                 /\ c[1].slug = (IF slugify(c[1].title) # <<>> THEN slugify(c[1].title)
                                 ELSE <<"i","d","e","a","-">> \o IntStr(attempt))
                 /\ c[1].unique
                      => /\ Len(c) = 1
                         /\ accepted
                         /\ Strip(idea'[1].title) = c[1].title
                 /\ ~c[1].unique
                      => /\ Len(c) = 2
                         /\ c[2].title = c[1].title \o <<" ", "(">> \o IntStr(attempt + 1)
                                           \o <<")">>
                         /\ c[2].slug = slugify(c[2].title)
                         /\ c[2].unique => (accepted /\ idea'[1].title = c[2].title)
                         /\ ~c[2].unique
                              => /\ idea' = None
                                 /\ pc' = "loop"
                                 /\ attempt' = attempt + 1
                                 /\ path' = path
     /\ (pc = "loop" /\ attempt = Attempts) => (path' = "fallback" /\ rounds' = rounds)]_vars

\* C21, its case: a run has persisted a candidate whose first slug was
\* rejected and whose slug with the qualifier was approved
RepairAccepted ==
  /\ pc = "done"
  /\ rc = 0
  /\ path = "loop"
  /\ Len(checked) = 2
  /\ ~checked[1].unique
  /\ checked[2].unique
  /\ idea[1].title = checked[1].title \o <<" ", "(">> \o IntStr(attempt + 1) \o <<")">>
  /\ record[1].slug = checked[2].slug

PersistInOrder ==
  [][/\ md' # md => (pc = "write_md" /\ pc' = "write_green"
                       /\ UNCHANGED <<green, jsonl, latest>>)
     /\ green' # green => (pc = "write_green" /\ pc' = "write_jsonl"
                             /\ UNCHANGED <<md, jsonl, latest>>)
     /\ jsonl' # jsonl => (pc = "write_jsonl" /\ pc' = "write_latest"
                             /\ UNCHANGED <<md, green, latest>>)
     /\ latest' # latest => (pc = "write_latest" /\ pc' = "done" /\ rc' = 0
                               /\ UNCHANGED <<md, green, jsonl>>)
     /\ pc \in {"write_md", "write_green", "write_jsonl", "write_latest"}
          => \/ /\ pc' = (CASE pc = "write_md" -> "write_green"
                            [] pc = "write_green" -> "write_jsonl"
                            [] pc = "write_jsonl" -> "write_latest"
                            [] pc = "write_latest" -> "done")
                /\ rc' = 0
                /\ pc = "write_md" => md' # md
                /\ pc = "write_green" => green' = record
                /\ pc = "write_jsonl" => RecordsFor(jsonl'[month], today) # {}
                /\ pc = "write_latest" => latest' = record
             \/ /\ pc' = "done"
                /\ rc' # 0
                /\ UNCHANGED files
     /\ pc = "done" => UNCHANGED files]_vars

\* C23, its case: a run has ended with status 1 at the write of the month
\* .jsonl: the month log has its entry and the scratch file its record, the
\* .jsonl has no record of the date and docs/latest.json is not the record
JsonlWriteFailed ==
  /\ pc = "done"
  /\ rc = 1
  /\ record # None
  /\ HeadingsFor(md[month], today) # {}
  /\ green = record
  /\ RecordsFor(jsonl[month], today) = {}
  /\ latest # record

SlugWellFormed ==
  /\ \A r \in StoredRecords \cup {record[k] : k \in 1..Len(record)} :
       \E s \in {slugify(r.concept)} :
         /\ r.slug = (IF s # <<>> THEN s ELSE <<"i", "d", "e", "a">>)
         /\ r.repo_name = r.slug \o <<"-">> \o r.date
         /\ r.slug # <<>>
         /\ \A k \in 1..Len(r.slug) : r.slug[k] \in SlugChars
         /\ r.slug[1] # "-"
         /\ r.slug[Len(r.slug)] # "-"
         /\ slugify(s) = s
         /\ slugify(r.slug) = r.slug
  /\ \A k \in 1..Len(checked) :
       slugify(slugify(checked[k].title)) = slugify(checked[k].title)

\* C25, its case: the logs hold a record whose concept has no letter and no
\* digit, with the slug 'idea', and a record whose concept ends with a
\* qualifier in brackets
SlugDefaultStored ==
  /\ \E r \in StoredRecords : slugify(r.concept) = <<>> /\ r.slug = <<"i", "d", "e", "a">>
  /\ \E r \in StoredRecords : r.concept # <<>> /\ r.concept[Len(r.concept)] = ")"

\* C26: the record of a run whose idea the retry loop accepted has the slug
\* that is_unique approved last in the accepting round.
StoredSlugIsChecked ==
  (pc = "done" /\ rc = 0 /\ path = "loop")
    => /\ checked # <<>>
       /\ checked[Len(checked)].unique
       /\ record[1].slug = checked[Len(checked)].slug

\* C27: the source of the record of a run is the provider its idea came from:
\* 'azure' or 'openai' for a candidate that backend returned, 'offline' for a
\* candidate of the offline generator and on the exhaustion path.
SourceIsProvider ==
  (pc = "done" /\ rc = 0 /\ path \in {"loop", "fallback"})
    => /\ record[1].source = via
       /\ path = "fallback" => record[1].source = "offline"

\* C28: when a run has ended with status 0 for a date that has an entry in the
\* month log, the month .jsonl holds a record of that date, and when the run
\* did not skip, docs/latest.json is of that date: a run after one that ended
\* between the two appends makes up for the record that is missing.
RecoversAfterAbort ==
  (pc = "done" /\ rc = 0 /\ runs > 0 /\ HeadingsFor(md[month], today) # {})
    => /\ RecordsFor(jsonl[month], today) # {}
       /\ path # "skip" => (latest # None /\ latest[1].date = today)

\* C29: a run that took the skip exit ran for a date that has an entry heading
\* in the month log, and every run that has ended with status 0 leaves the
\* month log with an entry heading of its date.
SkipOnlyOnHeading ==
  /\ path = "skip" => HeadingsFor(md[month], today) # {}
  /\ (pc = "done" /\ rc = 0 /\ runs > 0) => HeadingsFor(md[month], today) # {}

\* C30: the build_ai_summary.py a backfill runs after the orchestrator of date
\* d leaves every line of the month .jsonl files that is not a record of d as
\* it was.
BackfillEnrichesOwnDate ==
  [][(bf_pc = "loop" /\ DateLE(bf_d[1], bf_end[1]) /\ jobs' = jobs + 1)
       => \A m \in Months :
            /\ Len(jsonl'[m].lines) = Len(jsonl[m].lines)
            /\ \A i \in 1..Len(jsonl[m].lines) :
                 \/ jsonl'[m].lines[i] = jsonl[m].lines[i]
                 \/ /\ IsObj(jsonl[m].lines[i])
                    /\ jsonl[m].lines[i].date = IsoFormat(bf_d[1])]_vars

=============================================================================
